---- MODULE Spec2Model ----
(***************************************************************************)
(* Model of the ai-dev-console vendor-abstraction layer: the conversation  *)
(* data model and its validation (models/client/types.py), the vendor      *)
(* adapters (models/client/adapters.py), the model registry                *)
(* (models/model.py) and the client facade with its streaming operations   *)
(* (models/client/base.py).                                                *)
(*                                                                         *)
(* Conventions.  An Optional[T] is a sequence of length 0 (None) or 1.     *)
(* A Python dict is a function over the set of its keys, so that           *)
(* `"k" in d` is `"k" \in DOMAIN d`.  Python str is a TLA+ string and      *)
(* `+` / f-string interpolation is \o.  An operation that can raise        *)
(* returns [ok, val | err]; an exception is [type, msg, cause].            *)
(***************************************************************************)
EXTENDS Integers, Sequences, FiniteSets, TLC

VARIABLES client, last, streams

vars == <<client, last, streams>>

-----------------------------------------------------------------------------
(* Bounds of the model *)

\* Longest gateway event sequence a single stream delivers.
MaxEvents == 3
\* Longest direct-API text-delta sequence a single stream delivers.
MaxChunks == 5
\* Longest gateway event sequence of a stream of text deltas and error events.
MaxGatewayEvents == 4
\* Longest wire event sequence of each of two concurrently open streams.
MaxConcEvents == 2

-----------------------------------------------------------------------------
(* Generic helpers *)

None == <<>>
Some(x) == <<x>>
IsNone(o) == Len(o) = 0
Get(o) == o[1]

EmptyDict == [k \in {} |-> k]
Has(d, k) == k \in DOMAIN d

\* Exceptions.  __cause__ is set only by `raise ... from e`.
NoCause == [type |-> "NoCause"]
Exc(t, m) == [type |-> t, msg |-> m, cause |-> NoCause]
ExcFrom(t, m, c) == [type |-> t, msg |-> m, cause |-> c]

Ok(v) == [ok |-> TRUE, val |-> v]
Raise(e) == [ok |-> FALSE, err |-> e]

-----------------------------------------------------------------------------
(* models/vendor.py *)

ANTHROPIC == "anthropic"
AWS == "aws"
OPENAI == "openai"
Vendor == {ANTHROPIC, AWS, OPENAI}

-----------------------------------------------------------------------------
(* models/model.py : SupportedModels *)

\* _model_mappings, in insertion (iteration) order.
MappingNames ==
    << "claude-3-7-sonnet-20250219",
       "claude-3-haiku-20240307",
       "claude-3-5-sonnet-20241022" >>

VendorIds(name) ==
    CASE name = "claude-3-7-sonnet-20250219" ->
            (ANTHROPIC :> "claude-3-7-sonnet-20250219"
             @@ AWS :> "anthropic.claude-3-7-sonnet-20250219-v1:0")
      [] name = "claude-3-haiku-20240307" ->
            (ANTHROPIC :> "claude-3-haiku-20240307"
             @@ AWS :> "anthropic.claude-3-haiku-20240307-v1:0")
      [] name = "claude-3-5-sonnet-20241022" ->
            (ANTHROPIC :> "claude-3-5-sonnet-20241022"
             @@ AWS :> "anthropic.claude-3-5-sonnet-20240620-v1:0")

HasMapping(name) == \E i \in 1..Len(MappingNames) : MappingNames[i] = name

ModelsRequiringInferenceProfiles == {"claude-3-7-sonnet-20250219"}

\* available_models: every catalog name has an Anthropic variant, which is
\* the preferred default.
AvailableModelVendor(name) ==
    IF HasMapping(name) THEN Some(ANTHROPIC) ELSE None

requires_inference_profile(model_name) ==
    model_name \in ModelsRequiringInferenceProfiles

\* A faulty variant that passes a name without a mapping through; C20 fails
\* for it.
get_vendor_model_id_Passthrough(model_name, vendor) ==
    IF HasMapping(model_name)
    THEN IF vendor \in DOMAIN VendorIds(model_name)
         THEN Ok(VendorIds(model_name)[vendor])
         ELSE Raise(Exc("ValueError",
                  "Model '" \o model_name \o "' not supported for vendor " \o vendor))
    ELSE Ok(model_name)

get_vendor_model_id(model_name, vendor) ==
    IF HasMapping(model_name)
    THEN IF vendor \in DOMAIN VendorIds(model_name)
         THEN Ok(VendorIds(model_name)[vendor])
         ELSE Raise(Exc("ValueError",
                  "Model '" \o model_name \o "' not supported for vendor " \o vendor))
    ELSE IF ~IsNone(AvailableModelVendor(model_name))
            /\ Get(AvailableModelVendor(model_name)) = vendor
         THEN Ok(model_name)
         ELSE Raise(Exc("ValueError",
                  "No mapping found for model '" \o model_name
                     \o "' and vendor " \o vendor))

\* A Decimal: `units` times ten to the power `exponent`. Costs per million
\* tokens are held in hundredths of a dollar.
Decimal(units, exponent) == [units |-> units, exponent |-> exponent]

\* ModelCosts(input, output): __post_init__ rejects a negative cost.
ModelCosts(input_cost, output_cost) ==
    IF input_cost.units < 0
    THEN Raise(Exc("ValueError", "Input cost cannot be negative"))
    ELSE IF output_cost.units < 0
    THEN Raise(Exc("ValueError", "Output cost cannot be negative"))
    ELSE Ok([input_cost_per_million_tokens |-> input_cost,
             output_cost_per_million_tokens |-> output_cost])

\* A faulty variant of quantize that drops the digits beyond the fifth place;
\* C26 fails for it.
Quantize5_Truncating(n) == Decimal(n \div 1000, -5)

\* x.quantize(Decimal("0.00001")) for x = n * 10^-8, n >= 0, under the default
\* context: round half to even.
Quantize5(n) ==
    LET q == n \div 1000
        rest == n % 1000
    IN  Decimal(IF rest > 500 \/ (rest = 500 /\ q % 2 = 1) THEN q + 1 ELSE q, -5)

\* ModelCosts.calculate_cost: the two products are exact (token counts times
\* hundredths, over a million, are multiples of 10^-8) as long as they fit
\* the 28 significant digits of the decimal context.
calculate_cost(costs, input_tokens, output_tokens) ==
    IF input_tokens < 0 \/ output_tokens < 0
    THEN Raise(Exc("ValueError", "Token counts cannot be negative"))
    ELSE Ok(Quantize5(input_tokens * costs.input_cost_per_million_tokens.units
                      + output_tokens * costs.output_cost_per_million_tokens.units))

\* s[:2]: the first two characters of s, or all of s when it is shorter.
Slice2(s) == SubSeq(s, 1, IF Len(s) < 2 THEN Len(s) ELSE 2)

\* A faulty variant that builds an identifier for every name with a gateway
\* id, required or not; C21 fails for it.
get_inference_profile_arn_Unchecked(model_name, region, account_id) ==
    LET region_prefix == Slice2(region)
        model_id == get_vendor_model_id(model_name, AWS)
    IN  IF ~model_id.ok THEN model_id
        ELSE Ok("arn:aws:bedrock:" \o region \o ":" \o account_id
                  \o ":inference-profile/" \o region_prefix \o "."
                  \o model_id.val)

get_inference_profile_arn(model_name, region, account_id) ==
    IF ~requires_inference_profile(model_name)
    THEN Raise(Exc("ValueError",
             "Model '" \o model_name \o "' does not require an inference profile"))
    ELSE LET region_prefix == Slice2(region)
             model_id == get_vendor_model_id(model_name, AWS)
         IN  IF ~model_id.ok THEN model_id
             ELSE Ok("arn:aws:bedrock:" \o region \o ":" \o account_id
                       \o ":inference-profile/" \o region_prefix \o "."
                       \o model_id.val)

\* _models_by_vendor: the catalog names and, per name, the vendors with a
\* variant, both in insertion order.
CatalogNames ==
    << "claude-3-7-sonnet-20250219",
       "claude-3-5-sonnet-20241022",
       "claude-3-haiku-20240307" >>

CatalogVendors(name) ==
    CASE name = "claude-3-7-sonnet-20250219" -> << AWS, ANTHROPIC >>
      [] name = "claude-3-5-sonnet-20241022" -> << AWS, ANTHROPIC >>
      [] name = "claude-3-haiku-20240307" -> << ANTHROPIC, AWS >>

InCatalog(name) == \E i \in 1..Len(CatalogNames) : CatalogNames[i] = name

HasVariant(name, vendor) ==
    \E i \in 1..Len(CatalogVendors(name)) : CatalogVendors(name)[i] = vendor

\* The catalog entry of a name for a vendor.
AIModel(name, vendor) == [name |-> name, vendor |-> vendor]

\* models.get(Vendor.ANTHROPIC, next(iter(models.values())))
DefaultVariant(name) ==
    IF HasVariant(name, ANTHROPIC) THEN AIModel(name, ANTHROPIC)
    ELSE AIModel(name, CatalogVendors(name)[1])

\* A faulty variant that answers with the first variant in insertion order;
\* C19 fails for it.
get_model_FirstVariant(model_name, vendor) ==
    IF ~InCatalog(model_name)
    THEN Raise(Exc("ValueError", "Model '" \o model_name \o "' not found"))
    ELSE IF IsNone(vendor)
    THEN Ok(AIModel(model_name, CatalogVendors(model_name)[1]))
    ELSE IF ~HasVariant(model_name, Get(vendor))
    THEN Raise(Exc("ValueError",
             "Model '" \o model_name \o "' not supported for vendor "
                \o Get(vendor)))
    ELSE Ok(AIModel(model_name, Get(vendor)))

\* get_model(model_name, vendor=None)
get_model(model_name, vendor) ==
    IF ~InCatalog(model_name)
    THEN Raise(Exc("ValueError", "Model '" \o model_name \o "' not found"))
    ELSE IF IsNone(vendor)
    THEN Ok(DefaultVariant(model_name))
    ELSE IF ~HasVariant(model_name, Get(vendor))
    THEN Raise(Exc("ValueError",
             "Model '" \o model_name \o "' not supported for vendor "
                \o Get(vendor)))
    ELSE Ok(AIModel(model_name, Get(vendor)))

\* Whether model_id is the id some mapping registers for vendor.
IsVendorId(model_id, vendor) ==
    \E i \in 1..Len(MappingNames) :
       /\ vendor \in DOMAIN VendorIds(MappingNames[i])
       /\ VendorIds(MappingNames[i])[vendor] = model_id

\* A faulty variant without the passthrough of already-resolved ids; C17
\* fails for it.
resolve_model_id_NoPassthrough(model_id, vendor) ==
    get_vendor_model_id(model_id, vendor)

resolve_model_id(model_id, vendor) ==
    IF IsVendorId(model_id, vendor) THEN Ok(model_id)
    ELSE get_vendor_model_id(model_id, vendor)

-----------------------------------------------------------------------------
(* models/client/types.py : the neutral data model and its validation *)

Text(t) == [text |-> Some(t), image |-> None]
Image == [text |-> None,
          image |-> Some([media_type |-> "image/png", data |-> "iVBORw0KGgo="])]
Msg(role, content) == [role |-> role, content |-> content]

\* InferenceConfiguration(); max_tokens defaults to 500.
Config(temperature, top_p, max_tokens) ==
    [temperature |-> temperature, top_p |-> top_p,
     max_tokens |-> max_tokens, stop_sequences |-> None]

DefaultConfig == Config(None, None, Some(500))

\* A Python value held by stop_sequences: its type and its items (for a str,
\* its characters), each item a value with its own type.
PyStr(t) == [type |-> "str", v |-> t]
PyInt(t) == [type |-> "int", v |-> t]
PyValue(type, items) == [type |-> type, items |-> items]

\* list(x)
PyList(x) == PyValue("list", x.items)

\* A faulty variant without the upper bound of max_tokens; C15 fails for it.
InferenceConfiguration_validate_Unbounded(c) ==
    IF ~IsNone(c.temperature) /\ ~(0 <= Get(c.temperature) /\ Get(c.temperature) <= 1)
    THEN Some(Exc("ValueError", "Temperature must be between 0 and 1"))
    ELSE IF ~IsNone(c.top_p) /\ ~(0 <= Get(c.top_p) /\ Get(c.top_p) <= 1)
    THEN Some(Exc("ValueError", "Top P must be between 0 and 1"))
    ELSE IF ~IsNone(c.max_tokens) /\ Get(c.max_tokens) <= 0
    THEN Some(Exc("ValueError", "Max tokens must be positive"))
    ELSE IF ~IsNone(c.stop_sequences) /\ Get(c.stop_sequences).type # "list"
    THEN Some(Exc("ValueError", "Stop sequences must be a list of strings"))
    ELSE IF ~IsNone(c.stop_sequences)
            /\ \E i \in 1..Len(Get(c.stop_sequences).items) :
                  Get(c.stop_sequences).items[i].type # "str"
    THEN Some(Exc("ValueError", "All stop sequences must be strings"))
    ELSE None

\* InferenceConfiguration.validate: None, or the ValueError it raises.
InferenceConfiguration_validate(c) ==
    IF ~IsNone(c.temperature) /\ ~(0 <= Get(c.temperature) /\ Get(c.temperature) <= 1)
    THEN Some(Exc("ValueError", "Temperature must be between 0 and 1"))
    ELSE IF ~IsNone(c.top_p) /\ ~(0 <= Get(c.top_p) /\ Get(c.top_p) <= 1)
    THEN Some(Exc("ValueError", "Top P must be between 0 and 1"))
    ELSE IF ~IsNone(c.max_tokens) /\ Get(c.max_tokens) <= 0
    THEN Some(Exc("ValueError", "Max tokens must be positive"))
    ELSE IF ~IsNone(c.max_tokens) /\ Get(c.max_tokens) > 8192
    THEN Some(Exc("ValueError", "Max tokens cannot exceed 8192"))
    ELSE IF ~IsNone(c.stop_sequences) /\ Get(c.stop_sequences).type # "list"
    THEN Some(Exc("ValueError", "Stop sequences must be a list of strings"))
    ELSE IF ~IsNone(c.stop_sequences)
            /\ \E i \in 1..Len(Get(c.stop_sequences).items) :
                  Get(c.stop_sequences).items[i].type # "str"
    THEN Some(Exc("ValueError", "All stop sequences must be strings"))
    ELSE None

\* A faulty variant that does not look at the content of the messages; C14
\* fails for it.
ConverseRequest_validate_NoContentCheck(r) ==
    IF r.model_id = ""
    THEN Some(Exc("ValueError", "Model ID is required"))
    ELSE IF Len(r.messages) = 0
    THEN Some(Exc("ValueError", "At least one message is required"))
    ELSE IF ~IsNone(r.inference_config)
    THEN InferenceConfiguration_validate(Get(r.inference_config))
    ELSE None

\* ConverseRequest.validate: None, or the ValueError it raises.
ConverseRequest_validate(r) ==
    IF r.model_id = ""
    THEN Some(Exc("ValueError", "Model ID is required"))
    ELSE IF Len(r.messages) = 0
    THEN Some(Exc("ValueError", "At least one message is required"))
    ELSE IF \E i \in 1..Len(r.messages) : Len(r.messages[i].content) = 0
    THEN Some(Exc("ValueError", "Each message must have content"))
    ELSE IF ~IsNone(r.inference_config)
    THEN InferenceConfiguration_validate(Get(r.inference_config))
    ELSE None

\* The request object once validate() has returned: validate assigns nothing.
ConverseRequest_after_validate(r) == r

\* A ConverseRequest object.  `thinking` is the pair of attributes
\* thinking_enabled / thinking_budget the adapters read: the dataclass of
\* types.py declares neither, so an object built by it has them only when the
\* caller has set them on the object (None: the attributes are absent).
Request(model_id, messages, system, inference_config, thinking) ==
    [model_id |-> model_id, messages |-> messages, system |-> system,
     inference_config |-> inference_config, thinking |-> thinking]

Thinking(enabled, budget) == [enabled |-> enabled, budget |-> budget]

Truthy(o) == ~IsNone(o) /\ Get(o) # ""

\* `sub in s` on strings.
Contains(s, sub) ==
    \E i \in 1..(Len(s) - Len(sub) + 1) : SubSeq(s, i, i + Len(sub) - 1) = sub

NoThinkingAttr ==
    Exc("AttributeError",
        "'ConverseRequest' object has no attribute 'thinking_enabled'")

-----------------------------------------------------------------------------
(* models/client/adapters.py *)

RECURSIVE AnthropicBlocks(_)
AnthropicBlocks(content) ==
    IF Len(content) = 0 THEN <<>>
    ELSE LET block == Head(content)
             t == IF Truthy(block.text)
                  THEN << [type |-> "text", text |-> Get(block.text)] >>
                  ELSE <<>>
             i == IF ~IsNone(block.image)
                  THEN << [type |-> "image",
                           source |-> [type |-> "base64",
                                       media_type |-> Get(block.image).media_type,
                                       data |-> Get(block.image).data]] >>
                  ELSE <<>>
         IN  t \o i \o AnthropicBlocks(Tail(content))

AnthropicMessage(msg) ==
    IF Len(msg.content) = 1 /\ Truthy(msg.content[1].text)
       /\ IsNone(msg.content[1].image)
    THEN [role |-> msg.role, content |-> [str |-> Get(msg.content[1].text)]]
    ELSE [role |-> msg.role, content |-> [blocks |-> AnthropicBlocks(msg.content)]]

AnthropicAdapter_adapt_request(request) ==
    LET cfg == request.inference_config
        max_tokens == IF ~IsNone(cfg) /\ ~IsNone(Get(cfg).max_tokens)
                      THEN Get(Get(cfg).max_tokens) ELSE 500
        adapted == [model |-> request.model_id,
                    messages |-> [i \in 1..Len(request.messages) |->
                                     AnthropicMessage(request.messages[i])],
                    max_tokens |-> max_tokens]
        optional ==
            (IF ~IsNone(cfg) /\ ~IsNone(Get(cfg).temperature)
             THEN [temperature |-> Get(Get(cfg).temperature)] ELSE EmptyDict)
            @@ (IF ~IsNone(cfg) /\ ~IsNone(Get(cfg).top_p)
                THEN [top_p |-> Get(Get(cfg).top_p)] ELSE EmptyDict)
            @@ (IF ~IsNone(cfg) /\ ~IsNone(Get(cfg).stop_sequences)
                THEN [stop_sequences |-> PyList(Get(Get(cfg).stop_sequences))]
                ELSE EmptyDict)
            @@ (IF Truthy(request.system)
                THEN [system |-> Get(request.system)] ELSE EmptyDict)
    IN  IF IsNone(request.thinking) THEN Raise(NoThinkingAttr)
        ELSE IF Get(request.thinking).enabled
        THEN Ok(adapted @@ optional
                @@ [thinking |-> [type |-> "enabled",
                                  budget_tokens |-> Get(request.thinking).budget]])
        ELSE Ok(adapted @@ optional)

\* The response dataclass of types.py takes no `thinking` argument, so the
\* construction at the end of adapt_response raises for every response.
AnthropicAdapter_adapt_response(response) ==
    IF ~Has(response, "messages")
    THEN Raise(Exc("KeyError", "'messages'"))
    ELSE Raise(Exc("TypeError",
             "__init__() got an unexpected keyword argument 'thinking'"))

RECURSIVE AWSContent(_)
AWSContent(content) ==
    IF Len(content) = 0 THEN <<>>
    ELSE (IF ~IsNone(Head(content).text)
          THEN << [text |-> Get(Head(content).text)] >> ELSE <<>>)
         \o AWSContent(Tail(content))

\* A faulty variant that looks for the marker at the start of the id only;
\* C24 fails for it.
AWSReasoningMarker_Prefix(model_id) ==
    Len(model_id) >= 10 /\ SubSeq(model_id, 1, 10) = "claude-3-7"

\* `"claude-3-7" in request.model_id`
AWSReasoningMarker(model_id) == Contains(model_id, "claude-3-7")

\* A faulty variant that attaches inferenceConfig even when it is empty; C23
\* fails for it.
AWSAdapter_adapt_request_AlwaysConfig(request) ==
    LET cfg == request.inference_config
        adapted == [modelId |-> request.model_id,
                    messages |-> [i \in 1..Len(request.messages) |->
                                     [role |-> request.messages[i].role,
                                      content |-> AWSContent(request.messages[i].content)]]]
        system == IF Truthy(request.system)
                  THEN [system |-> << [text |-> Get(request.system)] >>]
                  ELSE EmptyDict
        inference ==
            IF IsNone(cfg) THEN EmptyDict
            ELSE (IF ~IsNone(Get(cfg).temperature)
                  THEN [temperature |-> Get(Get(cfg).temperature)] ELSE EmptyDict)
                 @@ (IF ~IsNone(Get(cfg).max_tokens)
                     THEN [maxTokens |-> Get(Get(cfg).max_tokens)] ELSE EmptyDict)
                 @@ (IF ~IsNone(Get(cfg).top_p)
                     THEN [topP |-> Get(Get(cfg).top_p)] ELSE EmptyDict)
                 @@ (IF ~IsNone(Get(cfg).stop_sequences)
                     THEN [stopSequences |-> PyList(Get(Get(cfg).stop_sequences))]
                     ELSE EmptyDict)
        inferenceConfig == [inferenceConfig |-> inference]
    IN  IF IsNone(request.thinking) THEN Raise(NoThinkingAttr)
        ELSE IF Get(request.thinking).enabled
                /\ AWSReasoningMarker(request.model_id)
        THEN Ok(adapted @@ system @@ inferenceConfig
                @@ [additionalModelRequestFields |->
                      [reasoning_config |->
                         [type |-> "enabled",
                          budget_tokens |-> Get(request.thinking).budget]]])
        ELSE Ok(adapted @@ system @@ inferenceConfig)

AWSAdapter_adapt_request(request) ==
    LET cfg == request.inference_config
        adapted == [modelId |-> request.model_id,
                    messages |-> [i \in 1..Len(request.messages) |->
                                     [role |-> request.messages[i].role,
                                      content |-> AWSContent(request.messages[i].content)]]]
        system == IF Truthy(request.system)
                  THEN [system |-> << [text |-> Get(request.system)] >>]
                  ELSE EmptyDict
        inference ==
            IF IsNone(cfg) THEN EmptyDict
            ELSE (IF ~IsNone(Get(cfg).temperature)
                  THEN [temperature |-> Get(Get(cfg).temperature)] ELSE EmptyDict)
                 @@ (IF ~IsNone(Get(cfg).max_tokens)
                     THEN [maxTokens |-> Get(Get(cfg).max_tokens)] ELSE EmptyDict)
                 @@ (IF ~IsNone(Get(cfg).top_p)
                     THEN [topP |-> Get(Get(cfg).top_p)] ELSE EmptyDict)
                 @@ (IF ~IsNone(Get(cfg).stop_sequences)
                     THEN [stopSequences |-> PyList(Get(Get(cfg).stop_sequences))]
                     ELSE EmptyDict)
        inferenceConfig == IF DOMAIN inference # {}
                           THEN [inferenceConfig |-> inference] ELSE EmptyDict
    IN  IF IsNone(request.thinking) THEN Raise(NoThinkingAttr)
        ELSE IF Get(request.thinking).enabled
                /\ AWSReasoningMarker(request.model_id)
        THEN Ok(adapted @@ system @@ inferenceConfig
                @@ [additionalModelRequestFields |->
                      [reasoning_config |->
                         [type |-> "enabled",
                          budget_tokens |-> Get(request.thinking).budget]]])
        ELSE Ok(adapted @@ system @@ inferenceConfig)

\* One Message per retained content entry; the content-block dataclass of
\* types.py takes no `thinking` argument, so a reasoning entry raises.
RECURSIVE AWSResponseMessages(_, _)
AWSResponseMessages(role, content) ==
    IF Len(content) = 0 THEN Ok(<<>>)
    ELSE LET c == Head(content)
             rest == AWSResponseMessages(role, Tail(content))
         IN  IF Has(c, "text")
             THEN IF rest.ok
                  THEN Ok(<< Msg(role, << Text(c.text) >>) >> \o rest.val)
                  ELSE rest
             ELSE IF Has(c, "reasoningContent")
                     /\ Has(c.reasoningContent, "reasoningText")
             THEN Raise(Exc("TypeError",
                      "__init__() got an unexpected keyword argument 'thinking'"))
             ELSE rest

AWSAdapter_adapt_response(response) ==
    IF ~Has(response, "output")
    THEN Raise(Exc("KeyError", "'output'"))
    ELSE LET msg == response.output.message
             messages == AWSResponseMessages(msg.role, msg.content)
         IN  IF ~messages.ok THEN messages
             ELSE Ok([messages |-> messages.val,
                      stop_reason |-> IF Has(response, "stopReason")
                                      THEN Some(response.stopReason) ELSE None])

\* VendorAdapter.create bound to the client's vendor.
adapt_request(vendor, request) ==
    IF vendor = ANTHROPIC THEN AnthropicAdapter_adapt_request(request)
    ELSE AWSAdapter_adapt_request(request)

adapt_response(vendor, response) ==
    IF vendor = ANTHROPIC THEN AnthropicAdapter_adapt_response(response)
    ELSE AWSAdapter_adapt_response(response)

\* The messages of a request adapted to the direct-API wire format and handed
\* to the same adapter's adapt_response, which reads response["messages"];
\* the result lists, per wire message, the messages built from it.
AnthropicRoundTrip(request) ==
    LET a == AnthropicAdapter_adapt_request(request)
    IN  IF ~a.ok THEN a
        ELSE LET r == AnthropicAdapter_adapt_response([messages |-> a.val.messages])
             IN  IF ~r.ok THEN r
                 ELSE Ok([i \in 1..Len(r.val.messages) |-> << r.val.messages[i] >>])

\* The same on the gateway path, whose adapt_response reads the one message
\* response["output"]["message"]: the wire messages are handed back one by
\* one and the messages it builds are collected in order.
RECURSIVE AWSRoundTripMessages(_)
AWSRoundTripMessages(wire) ==
    IF Len(wire) = 0 THEN Ok(<<>>)
    ELSE LET r == AWSAdapter_adapt_response([output |-> [message |-> Head(wire)]])
             rest == AWSRoundTripMessages(Tail(wire))
         IN  IF ~r.ok THEN r
             ELSE IF ~rest.ok THEN rest
             ELSE Ok(<< r.val.messages >> \o rest.val)

AWSRoundTrip(request) ==
    LET a == AWSAdapter_adapt_request(request)
    IN  IF ~a.ok THEN a ELSE AWSRoundTripMessages(a.val.messages)

-----------------------------------------------------------------------------
(* models/client/base.py : the synchronous and asynchronous operations *)

\* A constructed client object.  `response`, `raw` (_stream / _raw_response)
\* and `generator` (_generator) are the attributes converse_stream sets on
\* it; owner 0 / stream 0: not set yet.
NewClient(vendor, region, account_id) ==
    [cls |-> IF vendor = ANTHROPIC THEN "AnthropicClient" ELSE "AWSClient",
     vendor |-> vendor, region |-> region, account_id |-> account_id,
     response |-> [owner |-> 0, value |-> EmptyDict],
     raw |-> 0, generator |-> 0]

\* No client object constructed yet.
NoClient == [NewClient("", "", "") EXCEPT !.cls = "none"]

\* An instance of a ModelClient subclass that implements converse and
\* converse_async and inherits converse_stream.
BaseClient(vendor) == [NewClient(vendor, "", "") EXCEPT !.cls = "ModelClient"]

\* What one call did: whether the transport was invoked, the wire request
\* handed to it, and what the caller received.
Outcome(invoked, wire, result) ==
    [invoked |-> invoked, wire |-> wire, result |-> result]

\* raise ModelClientError(f"{prefix}{str(e)}") from e
Wrapped(prefix, e) == ExcFrom("ModelClientError", prefix \o e.msg, e)

\* A faulty variant of the try-block that omits request.validate(); C1 fails
\* for it.
TryConverse_Unvalidated(prefix, vendor, request, reply) ==
    LET a == adapt_request(vendor, request)
        r == adapt_response(vendor, reply.val)
    IN  IF ~a.ok
        THEN Outcome(FALSE, None, Raise(Wrapped(prefix, a.err)))
        ELSE IF ~reply.ok
        THEN Outcome(TRUE, Some(a.val), Raise(Wrapped(prefix, reply.err)))
        ELSE IF ~r.ok
        THEN Outcome(TRUE, Some(a.val), Raise(Wrapped(prefix, r.err)))
        ELSE Outcome(TRUE, Some(a.val), Ok(r.val))

\* The try-block shared by AnthropicClient.converse, .converse_async and
\* AWSClient.converse: validate, adapt the request, invoke the transport
\* (which answers `reply`), adapt the response; any failure is wrapped.
TryConverse(prefix, vendor, request, reply) ==
    LET v == ConverseRequest_validate(request)
        a == adapt_request(vendor, request)
        r == adapt_response(vendor, reply.val)
    IN  IF ~IsNone(v)
        THEN Outcome(FALSE, None, Raise(Wrapped(prefix, Get(v))))
        ELSE IF ~a.ok
        THEN Outcome(FALSE, None, Raise(Wrapped(prefix, a.err)))
        ELSE IF ~reply.ok
        THEN Outcome(TRUE, Some(a.val), Raise(Wrapped(prefix, reply.err)))
        ELSE IF ~r.ok
        THEN Outcome(TRUE, Some(a.val), Raise(Wrapped(prefix, r.err)))
        ELSE Outcome(TRUE, Some(a.val), Ok(r.val))

AnthropicClient_converse(request, reply) ==
    TryConverse("Failed to process request: ", ANTHROPIC, request, reply)

AnthropicClient_converse_async(request, reply) ==
    TryConverse("Failed to process async request: ", ANTHROPIC, request, reply)

AWSClient_converse(request, reply) ==
    TryConverse("Failed to process request: ", AWS, request, reply)

\* A faulty variant that serves the asynchronous call through the synchronous
\* path; C11 fails for it.
AWSClient_converse_async_Simulated(request, reply) ==
    TryConverse("Failed to process async request: ", AWS, request, reply)

AWSClient_converse_async(request, reply) ==
    Outcome(FALSE, None,
            Raise(Exc("NotImplementedError",
                      "Async operations not supported for Bedrock")))

\* AWSClient._resolve_model_id: the first mapping, in iteration order, whose
\* gateway id or canonical name is model_id.
RECURSIVE FirstMapping(_, _)
FirstMapping(names, model_id) ==
    IF Len(names) = 0 THEN None
    ELSE IF VendorIds(Head(names))[AWS] = model_id \/ Head(names) = model_id
    THEN Some(Head(names))
    ELSE FirstMapping(Tail(names), model_id)

AWSClient_resolve_model_id(c, model_id) ==
    LET canonical_name == FirstMapping(MappingNames, model_id)
    IN  IF ~IsNone(canonical_name)
           /\ requires_inference_profile(Get(canonical_name))
        THEN get_inference_profile_arn(Get(canonical_name), c.region, c.account_id)
        ELSE Ok(model_id)

\* ModelClient.converse_stream: the function has no yield, so the call made
\* by the contextmanager wrapper runs its body and raises at once.
ModelClient_converse_stream(request) ==
    Outcome(FALSE, None,
            Raise(Exc("NotImplementedError", "Streaming not supported")))

-----------------------------------------------------------------------------
(* The factories and the construction of clients *)

\* VendorAdapter.create
VendorAdapter_create(vendor) ==
    IF vendor = ANTHROPIC THEN Ok("AnthropicAdapter")
    ELSE IF vendor = AWS THEN Ok("AWSAdapter")
    ELSE Raise(Exc("ValueError", "Unsupported vendor: " \o vendor))

\* A transport handle of the gateway: its region and the account id of its
\* session credentials (None: the session has none to give).
Handle(region, account) == [region |-> region, account |-> account]

\* get_aws_account_id: the handle's session credentials, else the identity
\* service, whose answer is `sts`; a failure of the latter is not caught.
get_aws_account_id(handle, sts) ==
    IF ~IsNone(handle.account) THEN Ok(Get(handle.account)) ELSE sts

AnthropicClient_init(handle) ==
    LET adapter == VendorAdapter_create(ANTHROPIC)
    IN  IF ~adapter.ok THEN adapter ELSE Ok(NewClient(ANTHROPIC, "", ""))

AWSClient_init(handle, sts) ==
    LET adapter == VendorAdapter_create(AWS)
        account_id == get_aws_account_id(handle, sts)
    IN  IF ~adapter.ok THEN adapter
        ELSE IF ~account_id.ok THEN account_id
        ELSE Ok(NewClient(AWS, handle.region, account_id.val))

\* ModelClientFactory.create_client; `client` is the optional pre-built
\* handle, `ambient` what building one from the default configuration gives.
ModelClientFactory_create_client(vendor, handle, ambient, sts) ==
    LET h == IF ~IsNone(handle) THEN Ok(Get(handle)) ELSE ambient
    IN  IF vendor = ANTHROPIC
        THEN IF ~h.ok THEN h ELSE AnthropicClient_init(h.val)
        ELSE IF vendor = AWS
        THEN IF ~h.ok THEN h ELSE AWSClient_init(h.val, sts)
        ELSE IF vendor = OPENAI
        THEN Raise(Exc("NotImplementedError", "OpenAI client not yet implemented"))
        ELSE Raise(Exc("ValueError", "Unsupported vendor: " \o vendor))

-----------------------------------------------------------------------------
(* models/client/base.py : converse_stream *)

\* One call of converse_stream: the scope (the caller's with-block), the
\* generator handed to it, the transport's network stream, the wire items
\* delivered so far, and the closure variables of generate().
NoStream ==
    [scope |-> "none", gen |-> "none", net |-> "none", events |-> <<>>,
     current_role |-> None, full_response_text |-> "",
     complete_response |-> EmptyDict, yielded |-> <<>>,
     gen_error |-> None, scope_error |-> None]

\* The state on `yield generate()`: the network stream is acquired and open,
\* the generator is created and not yet started.
OpenedStream ==
    [NoStream EXCEPT !.scope = "in", !.gen = "created", !.net = "open"]

\* The part of converse_stream that runs on entering the scope: validate,
\* adapt, acquire the stream from the transport (which answers `reply`).
AnthropicClient_converse_stream(request, reply) ==
    LET v == ConverseRequest_validate(request)
        a == adapt_request(ANTHROPIC, request)
        failed(e) == Raise(Exc("ModelClientError", "Streaming failed: " \o e.msg))
    IN  IF ~IsNone(v) THEN Outcome(FALSE, None, failed(Get(v)))
        ELSE IF ~a.ok THEN Outcome(FALSE, None, failed(a.err))
        ELSE IF ~reply.ok THEN Outcome(TRUE, Some(a.val), failed(reply.err))
        ELSE Outcome(TRUE, Some(a.val), Ok(EmptyDict))

AWSClient_converse_stream(request, reply) ==
    LET v == ConverseRequest_validate(request)
        a == adapt_request(AWS, request)
        failed(e) == Raise(Wrapped("Streaming failed: ", e))
    IN  IF ~IsNone(v) THEN Outcome(FALSE, None, failed(Get(v)))
        ELSE IF ~a.ok THEN Outcome(FALSE, None, failed(a.err))
        ELSE IF ~reply.ok THEN Outcome(TRUE, Some(a.val), failed(reply.err))
        ELSE Outcome(TRUE, Some(a.val), Ok(EmptyDict))

\* An exception leaving the with-block is thrown into converse_stream at its
\* yield and caught by its except clause.
\* A faulty variant that lets an exception that is already a ModelClientError
\* through as it is; C27 fails for it.
AWSScopeError_Once(e) ==
    IF e.type = "ModelClientError" THEN e ELSE Wrapped("Streaming failed: ", e)

AnthropicScopeError(e) == Exc("ModelClientError", "Streaming failed: " \o e.msg)
AWSScopeError(e) == Wrapped("Streaming failed: ", e)

\* The network stream when the scope is left: the direct-API client holds it
\* in a with-statement, the gateway client holds it in a local variable.
AnthropicRelease(net) == "closed"
AWSRelease(net) == net

ErrorTypes ==
    << "internalServerException", "modelStreamErrorException",
       "validationException", "throttlingException",
       "serviceUnavailableException" >>

\* A faulty variant that recognises no error event; C5 fails for it.
FirstError_Swallowed(types, event) == None

\* The first of the named error keys present in the event, in list order.
RECURSIVE FirstError(_, _)
FirstError(types, event) ==
    IF Len(types) = 0 THEN None
    ELSE IF Has(event, Head(types)) THEN Some(Head(types))
    ELSE FirstError(Tail(types), event)

\* A faulty variant that keeps the first reasoning block of a content list;
\* C28 fails for it.
RECURSIVE LastReasoning_First(_, _)
LastReasoning_First(content, acc) ==
    IF Len(content) = 0 THEN acc
    ELSE LET b == Head(content)
         IN  IF Has(b, "reasoningContent")
                /\ Has(b.reasoningContent, "reasoningText")
             THEN Some(b.reasoningContent.reasoningText.text)
             ELSE LastReasoning_First(Tail(content), acc)

\* The reasoning text of the last reasoning block of a messageComplete
\* content list (each one overwrites complete_response["thinking"]).
RECURSIVE LastReasoning(_, _)
LastReasoning(content, acc) ==
    IF Len(content) = 0 THEN acc
    ELSE LET b == Head(content)
         IN  IF Has(b, "reasoningContent")
                /\ Has(b.reasoningContent, "reasoningText")
             THEN LastReasoning(Tail(content),
                                Some(b.reasoningContent.reasoningText.text))
             ELSE LastReasoning(Tail(content), acc)

\* A faulty variant of the role guard that lets every event through; C7 fails
\* for it.
AWSRoleGuard_Always(current_role) == TRUE

\* Whether the role guard of generate() lets the event through.
AWSRoleGuard(current_role) == current_role = Some("assistant")

\* A faulty variant that yields empty chunks too; C10 fails for it.
AnthropicYields_All(chunk) == TRUE

\* A direct-API chunk is yielded when it is truthy.
AnthropicYields(chunk) == chunk # ""

\* A gateway delta is yielded when it has a truthy text.
AWSYields(delta) == Has(delta, "text") /\ delta.text # ""

\* The body of the for-loop of AWSClient.converse_stream.generate for one
\* wire event.
AWSGenerateEvent(st, event) ==
    LET seen == [st EXCEPT !.events = Append(@, event), !.gen = "running"]
    IN  IF Has(event, "messageStart")
        THEN [seen EXCEPT !.current_role = Some(event.messageStart.role)]
        ELSE IF ~AWSRoleGuard(st.current_role)
        THEN seen
        ELSE LET d == IF Has(event, "contentBlockDelta")
                         /\ AWSYields(event.contentBlockDelta.delta)
                      THEN [seen EXCEPT
                              !.full_response_text =
                                  @ \o event.contentBlockDelta.delta.text,
                              !.yielded =
                                  Append(@, event.contentBlockDelta.delta.text)]
                      ELSE seen
                 t == IF Has(event, "messageComplete")
                         /\ Has(event.messageComplete, "message")
                         /\ Has(event.messageComplete.message, "content")
                      THEN LastReasoning(event.messageComplete.message.content, None)
                      ELSE None
                 c == IF ~IsNone(t)
                      THEN [d EXCEPT !.complete_response =
                                 [x \in {"thinking"} |-> [text |-> Get(t)]]]
                      ELSE d
                 err == FirstError(ErrorTypes, event)
             IN  IF ~IsNone(err)
                 THEN LET e == Exc("ModelClientError",
                                   "AWS Bedrock error: " \o event[Get(err)].message)
                      IN  [c EXCEPT !.gen = "raised", !.gen_error = Some(e),
                                    !.scope = "out",
                                    !.scope_error = Some(AWSScopeError(e)),
                                    !.net = AWSRelease(@)]
                 ELSE c

\* The body of the for-loop of AnthropicClient.converse_stream.generate for
\* one text delta.
AnthropicGenerateChunk(st, item) ==
    LET seen == [st EXCEPT !.events = Append(@, item), !.gen = "running"]
    IN  IF AnthropicYields(item.chunk)
        THEN [seen EXCEPT !.yielded = Append(@, item.chunk)]
        ELSE seen

\* The wire iterator raises while generate() pulls from it.
IteratorRaises(vendor, st, e) ==
    [st EXCEPT !.gen = "raised", !.gen_error = Some(e), !.scope = "out",
               !.scope_error = Some(IF vendor = ANTHROPIC
                                    THEN AnthropicScopeError(e)
                                    ELSE AWSScopeError(e)),
               !.net = IF vendor = ANTHROPIC
                       THEN AnthropicRelease(@) ELSE AWSRelease(@)]

\* The statements after the for-loop: the aggregate is completed.
AWSGenerateEnd(st) ==
    [st EXCEPT !.gen = "exhausted",
               !.complete_response =
                   @ @@ [x \in {"text"} |-> st.full_response_text]]

AnthropicGenerateEnd(st) == [st EXCEPT !.gen = "exhausted"]

\* A faulty variant that publishes the aggregate on every item; C9 fails for
\* it.
ResponseInLoop_Eager(vendor, s, st, response) ==
    [owner |-> s, value |-> st.complete_response]

\* client.response while the for-loop of generate() runs: it is assigned only
\* by the statements after the loop.
ResponseInLoop(vendor, s, st, response) == response

\* client.response after generate() of stream s ran to its end; the
\* direct-API client stores the transport's own response object.
AWSFinalResponse(s, st) == [owner |-> s, value |-> st.complete_response]
AnthropicFinalResponse(s, st) ==
    [owner |-> s, value |-> [x \in {"stream_response"} |-> s]]

-----------------------------------------------------------------------------
(* Inputs *)

StreamIds == {1, 2}

Regions == {"eu-central-1", "us-east-1"}

Clients ==
    {NewClient(ANTHROPIC, "", "")}
    \cup {NewClient(AWS, r, "123456789") : r \in Regions}

ModelIds ==
    {"", "claude-3-7-sonnet-20250219", "claude-3-haiku-20240307",
     "anthropic.claude-3-7-sonnet-20250219-v1:0", "my-custom-model"}

MessageLists ==
    { <<>>,
      << Msg("user", <<>>) >>,
      << Msg("user", << Text("hi") >>) >>,
      << Msg("user", << Text("look"), Image >>), Msg("assistant", << Text("") >>) >> }

\* Configurations as attribute assignment can leave them, in and out of range.
Configs == { DefaultConfig, Config(Some(2), None, Some(500)) }

Thinkings == {None, Some(Thinking(TRUE, 16000))}

CallRequests ==
    { Request(m, ms, None, Some(c), t) :
        m \in ModelIds, ms \in MessageLists, c \in Configs, t \in Thinkings }

StreamRequests ==
    { Request(m, ms, None, Some(DefaultConfig), t) :
        m \in {"", "claude-3-7-sonnet-20250219", "claude-3-haiku-20240307"},
        ms \in { <<>>, << Msg("user", << Text("hi") >>) >> },
        t \in Thinkings }

\* What the transport answers to a call.
AnthropicReplies ==
    { Raise(Exc("APIError", "overloaded")),
      Ok([id |-> "msg_1", role |-> "assistant"]),
      Ok([messages |-> << [role |-> "assistant"] >>]) }

AWSReplies ==
    { Raise(Exc("ClientError", "access denied")),
      Ok([ResponseMetadata |-> EmptyDict]),
      Ok([output |-> [message |-> [role |-> "assistant",
                                   content |-> << [text |-> "hello"] >>]],
          stopReason |-> "end_turn"]),
      Ok([output |-> [message |-> [role |-> "assistant",
                                   content |-> << [reasoningContent |->
                                                     [reasoningText |-> [text |-> "why"]]],
                                                  [text |-> "hello"] >>]]]) }

Replies(vendor) == IF vendor = ANTHROPIC THEN AnthropicReplies ELSE AWSReplies

\* What the transport answers to a request for a stream.
StreamReplies ==
    { Raise(Exc("ConnectionError", "Stream failed")), Ok(EmptyDict) }

\* What the wire iterator raises when the connection breaks mid-stream.
IteratorErrors == { Exc("ConnectionError", "connection reset") }

Reasoning(t) == [reasoningContent |-> [reasoningText |-> [text |-> t]]]

AWSEvents ==
    { [messageStart |-> [role |-> r]] : r \in {"assistant", "user"} }
    \cup { [contentBlockDelta |-> [delta |-> [text |-> t]]] : t \in {"", "a", "b"} }
    \cup { [contentBlockDelta |-> [delta |-> [reasoningContent |-> [text |-> "hm"]]]] }
    \cup { [contentBlockStop |-> [contentBlockIndex |-> 0]] }
    \cup { [messageComplete |-> [message |-> [content |-> c]]] :
             c \in { << [text |-> "ab"] >>,
                     << Reasoning("r1"), [text |-> "ab"], Reasoning("r2") >> } }
    \cup { [k \in {ErrorTypes[i]} |-> [message |-> "provider says no"]] :
             i \in 1..Len(ErrorTypes) }

AnthropicChunks == { [chunk |-> t] : t \in {"", "a", "b"} }

WireItems(vendor) == IF vendor = ANTHROPIC THEN AnthropicChunks ELSE AWSEvents

MaxItems(vendor) == IF vendor = ANTHROPIC THEN MaxChunks ELSE MaxEvents

\* Gateway streams of role markers, text deltas and error events.
GatewayItems ==
    { [messageStart |-> [role |-> r]] : r \in {"assistant", "user"} }
    \cup { [contentBlockDelta |-> [delta |-> [text |-> t]]] : t \in {"", "a", "b"} }
    \cup { [k \in {ErrorTypes[i]} |-> [message |-> "provider says no"]] :
             i \in 1..Len(ErrorTypes) }

\* The smaller alphabet of two concurrently open streams.
ConcItems(vendor) ==
    IF vendor = ANTHROPIC THEN { [chunk |-> t] : t \in {"", "a"} }
    ELSE { [messageStart |-> [role |-> "assistant"]],
           [contentBlockDelta |-> [delta |-> [text |-> "a"]]],
           [messageComplete |-> [message |-> [content |-> << Reasoning("r1") >>]]],
           [throttlingException |-> [message |-> "provider says no"]] }

-----------------------------------------------------------------------------
(* The state machine *)

NoCall == [op |-> "none"]

Init ==
    /\ client \in Clients
    /\ last = NoCall
    /\ streams = [s \in StreamIds |-> NoStream]

NoStreamYet == \A s \in StreamIds : streams[s].scope = "none"

\* client.converse(request)
Converse ==
    /\ NoStreamYet
    /\ \E request \in CallRequests, reply \in Replies(client.vendor) :
          last' = [op |-> "converse", request |-> request]
                  @@ (IF client.vendor = ANTHROPIC
                      THEN AnthropicClient_converse(request, reply)
                      ELSE AWSClient_converse(request, reply))
    /\ UNCHANGED <<client, streams>>

\* await client.converse_async(request)
ConverseAsync ==
    /\ NoStreamYet
    /\ \E request \in CallRequests, reply \in Replies(client.vendor) :
          last' = [op |-> "converse_async", request |-> request]
                  @@ (IF client.vendor = ANTHROPIC
                      THEN AnthropicClient_converse_async(request, reply)
                      ELSE AWSClient_converse_async(request, reply))
    /\ UNCHANGED <<client, streams>>

\* with client.converse_stream(request) as stream: the scope is entered, or
\* entering it raises.
OpenStream(s, request, reply) ==
    /\ streams[s].scope = "none"
    /\ LET o == IF client.vendor = ANTHROPIC
                THEN AnthropicClient_converse_stream(request, reply)
                ELSE AWSClient_converse_stream(request, reply)
       IN  /\ last' = [op |-> "converse_stream", request |-> request] @@ o
           /\ IF o.result.ok
              THEN /\ streams' = [streams EXCEPT ![s] = OpenedStream]
                   /\ client' = [client EXCEPT !.raw = s]
              ELSE UNCHANGED <<client, streams>>

Pulling(s) == streams[s].scope = "in" /\ streams[s].gen \in {"created", "running"}

\* The first statements of generate(), run by the first next().
Started(s) == IF streams[s].gen = "created"
              THEN [client EXCEPT !.generator = s] ELSE client

\* The consumer pulls and the wire delivers one more item.
GenItem(s, item, max) ==
    /\ Pulling(s)
    /\ Len(streams[s].events) < max
    /\ streams' = [streams EXCEPT ![s] =
                     IF client.vendor = ANTHROPIC
                     THEN AnthropicGenerateChunk(@, item)
                     ELSE AWSGenerateEvent(@, item)]
    /\ client' = [Started(s) EXCEPT !.response =
                     ResponseInLoop(client.vendor, s, streams'[s], @)]
    /\ UNCHANGED last

\* The consumer pulls and the wire iterator raises.
GenIteratorRaises(s, e) ==
    /\ Pulling(s)
    /\ streams' = [streams EXCEPT ![s] = IteratorRaises(client.vendor, @, e)]
    /\ client' = Started(s)
    /\ UNCHANGED last

\* The consumer pulls and the wire is exhausted: generate() runs to its end.
GenEnd(s) ==
    /\ Pulling(s)
    /\ LET st == IF client.vendor = ANTHROPIC
                 THEN AnthropicGenerateEnd(streams[s])
                 ELSE AWSGenerateEnd(streams[s])
       IN  /\ streams' = [streams EXCEPT ![s] = st]
           /\ client' = [Started(s) EXCEPT !.response =
                            IF client.vendor = ANTHROPIC
                            THEN AnthropicFinalResponse(s, st)
                            ELSE AWSFinalResponse(s, st)]
    /\ UNCHANGED last

\* The consumer leaves the with-block without an exception: after the last
\* chunk, or earlier (it stops iterating and pulls no more).
ExitScope(s) ==
    /\ streams[s].scope = "in"
    /\ streams' = [streams EXCEPT ![s].scope = "out",
                                  ![s].net = IF client.vendor = ANTHROPIC
                                             THEN AnthropicRelease(@)
                                             ELSE AWSRelease(@)]
    /\ UNCHANGED <<client, last>>

\* One client, its calls, then one stream.
Next ==
    \/ Converse
    \/ ConverseAsync
    \/ \E request \in StreamRequests, reply \in StreamReplies :
          OpenStream(1, request, reply)
    \/ \E item \in WireItems(client.vendor) :
          GenItem(1, item, MaxItems(client.vendor))
    \/ \E e \in IteratorErrors : GenIteratorRaises(1, e)
    \/ GenEnd(1)
    \/ ExitScope(1)

Spec == Init /\ [][Next]_vars

\* One client and two streams open on it at once.
NextConc ==
    \E s \in StreamIds :
        \/ \E request \in StreamRequests, reply \in StreamReplies :
              OpenStream(s, request, reply)
        \/ \E item \in ConcItems(client.vendor) : GenItem(s, item, MaxConcEvents)
        \/ GenEnd(s)
        \/ ExitScope(s)

SpecConc == Init /\ [][NextConc]_vars

\* One gateway client and one stream of role markers, text deltas and errors.
InitGateway ==
    /\ client \in {c \in Clients : c.vendor = AWS}
    /\ last = NoCall
    /\ streams = [s \in StreamIds |-> NoStream]

NextGateway ==
    \/ \E request \in StreamRequests, reply \in StreamReplies :
          OpenStream(1, request, reply)
    \/ \E item \in GatewayItems : GenItem(1, item, MaxGatewayEvents)
    \/ GenEnd(1)
    \/ ExitScope(1)

SpecGateway == InitGateway /\ [][NextGateway]_vars

\* Gateway streams of role markers, text deltas and completed messages with
\* and without reasoning blocks.
ThinkingItems ==
    { [messageStart |-> [role |-> r]] : r \in {"assistant", "user"} }
    \cup { [contentBlockDelta |-> [delta |-> [text |-> t]]] : t \in {"", "a", "b"} }
    \cup { [messageComplete |-> [message |-> [content |-> c]]] :
             c \in { << [text |-> "ab"] >>,
                     << Reasoning("r1"), [text |-> "ab"], Reasoning("r2") >>,
                     << Reasoning("r3") >> } }

\* One gateway client and one stream that ends without an error.
NextThinking ==
    \/ \E request \in StreamRequests, reply \in StreamReplies :
          OpenStream(1, request, reply)
    \/ \E item \in ThinkingItems : GenItem(1, item, MaxGatewayEvents)
    \/ GenEnd(1)
    \/ ExitScope(1)

SpecThinking == InitGateway /\ [][NextThinking]_vars

\* What the caller's own code raises inside the with-block: exceptions
\* deriving from Exception, which is what the except clause names.
CallerErrors ==
    { Exc("ValueError", "bad chunk"), Exc("ModelClientError", "caller gave up") }

\* The body of the with-block raises: the context manager throws the
\* exception into converse_stream at its yield, whose except clause raises
\* the ModelClientError that leaves the scope.
CallerRaises(s, e) ==
    /\ streams[s].scope = "in"
    /\ streams' = [streams EXCEPT
                     ![s].scope = "out",
                     ![s].scope_error = Some(IF client.vendor = ANTHROPIC
                                             THEN AnthropicScopeError(e)
                                             ELSE AWSScopeError(e)),
                     ![s].net = IF client.vendor = ANTHROPIC
                                THEN AnthropicRelease(@) ELSE AWSRelease(@)]
    /\ last' = [op |-> "raise", stream |-> s, error |-> e]
    /\ UNCHANGED client

\* One client and one stream whose consumer may fail on its own.
NextScope ==
    \/ \E request \in StreamRequests, reply \in StreamReplies :
          OpenStream(1, request, reply)
    \/ \E item \in WireItems(client.vendor) :
          GenItem(1, item, MaxItems(client.vendor))
    \/ \E e \in IteratorErrors : GenIteratorRaises(1, e)
    \/ GenEnd(1)
    \/ ExitScope(1)
    \/ \E e \in CallerErrors : CallerRaises(1, e)

SpecScope == Init /\ [][NextScope]_vars

\* Transport handles given to the factory, what building one from the
\* default configuration gives, and what the identity service answers.
Handles == { Handle(r, a) : r \in Regions, a \in {None, Some("123456789")} }

OptionalHandles == {None} \cup { Some(h) : h \in Handles }

AmbientHandles ==
    { Ok(Handle("us-east-1", None)),
      Raise(Exc("NoRegionError", "You must specify a region.")) }

IdentityAnswers ==
    { Ok("123456789"),
      Raise(Exc("NoCredentialsError", "Unable to locate credentials")) }

InitBuild ==
    /\ client = NoClient
    /\ last = NoCall
    /\ streams = [s \in StreamIds |-> NoStream]

\* VendorAdapter.create(vendor)
CreateAdapter ==
    /\ \E vendor \in Vendor :
          last' = [op |-> "VendorAdapter.create", vendor |-> vendor,
                   result |-> VendorAdapter_create(vendor)]
    /\ UNCHANGED <<client, streams>>

\* ModelClientFactory().create_client(vendor, client)
CreateClient ==
    \E vendor \in Vendor, handle \in OptionalHandles,
       ambient \in AmbientHandles, sts \in IdentityAnswers :
       LET r == ModelClientFactory_create_client(vendor, handle, ambient, sts)
       IN  /\ last' = [op |-> "create_client", vendor |-> vendor,
                        handle |-> handle, ambient |-> ambient, sts |-> sts,
                        result |-> r]
           /\ client' = IF r.ok THEN r.val ELSE client
           /\ UNCHANGED streams

\* A subclass of ModelClient that inherits converse_stream is instantiated.
CreateBaseClient ==
    /\ \E vendor \in {ANTHROPIC, AWS} :
          /\ client' = BaseClient(vendor)
          /\ last' = [op |-> "ModelClient.__init__", vendor |-> vendor]
    /\ UNCHANGED streams

Built == client.cls \in {"AnthropicClient", "AWSClient"}

\* client.converse_stream(request) on a client that inherits it.
ConverseStreamInherited ==
    /\ client.cls = "ModelClient"
    /\ \E request \in StreamRequests :
          last' = [op |-> "converse_stream", request |-> request]
                  @@ ModelClient_converse_stream(request)
    /\ UNCHANGED <<client, streams>>

\* Clients are built by the factories, then called.
NextBuild ==
    \/ CreateAdapter
    \/ CreateClient
    \/ CreateBaseClient
    \/ Built /\ Converse
    \/ Built /\ ConverseAsync
    \/ ConverseStreamInherited

SpecBuild == InitBuild /\ [][NextBuild]_vars

\* Inputs of the data model and of the registry.
Numbers == {None, Some(-1), Some(0), Some(1), Some(2)}

TokenCounts == {None, Some(-1), Some(0), Some(1), Some(500), Some(8192), Some(8193)}

StopSequences ==
    { None,
      Some(PyValue("list", <<>>)),
      Some(PyValue("list", << PyStr("END"), PyStr("STOP") >>)),
      Some(PyValue("list", << PyStr("END"), PyInt("7") >>)),
      Some(PyValue("str", << PyStr("E"), PyStr("N"), PyStr("D") >>)) }

LibConfigs ==
    { [Config(t, p, m) EXCEPT !.stop_sequences = ss] :
        t \in Numbers, p \in Numbers, m \in TokenCounts, ss \in StopSequences }

LibRequests ==
    { Request(m, ms, None, c, t) :
        m \in {"", "claude-3-haiku-20240307"},
        ms \in MessageLists,
        c \in { None, Some(DefaultConfig),
                Some(Config(Some(2), None, Some(500))),
                Some(Config(None, Some(1), Some(0))),
                Some([DefaultConfig EXCEPT !.stop_sequences =
                         Some(PyValue("list", << PyInt("7") >>))]) },
        t \in Thinkings }

RoundTripMessageLists ==
    { << Msg("user", << Text("hi") >>) >>,
      << Msg("user", << Text("hi") >>), Msg("assistant", << Text("hello") >>),
         Msg("user", << Text("look"), Image >>) >>,
      << Msg("user", << Text("one"), Text("two") >>) >> }

RoundTripRequests ==
    { Request("claude-3-haiku-20240307", ms, None, Some(DefaultConfig), t) :
        ms \in RoundTripMessageLists, t \in Thinkings }

LibModelIds ==
    { MappingNames[i] : i \in 1..Len(MappingNames) }
    \cup { VendorIds(MappingNames[i])[AWS] : i \in 1..Len(MappingNames) }
    \cup { "unknown-model", "invalid-model", "Claude-3-Haiku-20240307" }

OptionalVendors == {None} \cup { Some(v) : v \in Vendor }

\* No call has been made yet.
Idle == last = NoCall

\* request.validate()
Validate ==
    /\ Idle
    /\ \E request \in LibRequests :
          last' = [op |-> "ConverseRequest.validate", request |-> request,
                   after |-> ConverseRequest_after_validate(request),
                   result |-> ConverseRequest_validate(request)]
    /\ UNCHANGED <<client, streams>>

\* config.validate()
ConfigValidate ==
    /\ Idle
    /\ \E c \in LibConfigs :
          last' = [op |-> "InferenceConfiguration.validate", config |-> c,
                   result |-> InferenceConfiguration_validate(c)]
    /\ UNCHANGED <<client, streams>>

\* adapter.adapt_response(adapter.adapt_request(request)) on the messages
RoundTrip ==
    /\ Idle
    /\ \E vendor \in {ANTHROPIC, AWS}, request \in RoundTripRequests :
          last' = [op |-> "round_trip", vendor |-> vendor, request |-> request,
                   result |-> IF vendor = ANTHROPIC
                              THEN AnthropicRoundTrip(request)
                              ELSE AWSRoundTrip(request)]
    /\ UNCHANGED <<client, streams>>

\* models.resolve_model_id(model_id, vendor)
ResolveModelId ==
    /\ Idle
    /\ \E model_id \in LibModelIds, vendor \in Vendor :
          last' = [op |-> "resolve_model_id", model_id |-> model_id,
                   vendor |-> vendor, again |-> FALSE,
                   result |-> resolve_model_id(model_id, vendor)]
    /\ UNCHANGED <<client, streams>>

\* models.resolve_model_id applied to the id the previous call returned.
ResolveAgain ==
    /\ last.op = "resolve_model_id"
    /\ last.result.ok
    /\ last' = [op |-> "resolve_model_id", model_id |-> last.result.val,
                 vendor |-> last.vendor, again |-> TRUE,
                 result |-> resolve_model_id(last.result.val, last.vendor)]
    /\ UNCHANGED <<client, streams>>

\* models.get_model(model_name, vendor)
GetModel ==
    /\ Idle
    /\ \E model_name \in LibModelIds, vendor \in OptionalVendors :
          last' = [op |-> "get_model", model_name |-> model_name,
                   vendor |-> vendor,
                   result |-> get_model(model_name, vendor)]
    /\ UNCHANGED <<client, streams>>

\* models.get_vendor_model_id(model_name, vendor)
GetVendorModelId ==
    /\ Idle
    /\ \E model_name \in LibModelIds, vendor \in Vendor :
          last' = [op |-> "get_vendor_model_id", model_name |-> model_name,
                   vendor |-> vendor,
                   result |-> get_vendor_model_id(model_name, vendor)]
    /\ UNCHANGED <<client, streams>>

ArnRegions == Regions \cup {"ap-southeast-2", "e"}

AccountIds == {"123456789", "000000000000"}

\* models.get_inference_profile_arn(model_name, region, account_id)
GetInferenceProfileArn ==
    /\ Idle
    /\ \E model_name \in LibModelIds, region \in ArnRegions,
          account_id \in AccountIds :
          last' = [op |-> "get_inference_profile_arn",
                   model_name |-> model_name, region |-> region,
                   account_id |-> account_id,
                   result |-> get_inference_profile_arn(model_name, region,
                                                        account_id)]
    /\ UNCHANGED <<client, streams>>

\* A block holding a caption and an image, and a block holding a document
\* only.
Captioned == [Image EXCEPT !.text = Some("caption")]

DocumentOnly == [text |-> None, image |-> None]

AdaptMessageLists ==
    { << Msg("user", << Text("Hello") >>) >>,
      << Msg("user", << Text("") >>) >>,
      << Msg("user", << Text("look"), Image >>),
         Msg("assistant", << Text("a cat") >>) >>,
      << Msg("user", << Captioned >>), Msg("user", << Image >>) >>,
      << Msg("user", << DocumentOnly >>),
         Msg("user", << Text("one"), Text(""), Text("two") >>) >> }

AdaptConfigs ==
    { None, Some(DefaultConfig), Some(Config(None, None, None)),
      Some(Config(Some(0), None, Some(1000))),
      Some([Config(Some(1), Some(1), None) EXCEPT !.stop_sequences =
               Some(PyValue("list", << PyStr("END") >>))]),
      Some([Config(None, None, None) EXCEPT !.stop_sequences =
               Some(PyValue("list", <<>>))]) }

AdaptModelIds ==
    { "claude-3-haiku-20240307", "claude-3-7-sonnet-20250219",
      "anthropic.claude-3-5-sonnet-20240620-v1:0",
      get_inference_profile_arn("claude-3-7-sonnet-20250219", "eu-central-1",
                                "123456789").val }

AdaptRequests ==
    { Request(m, ms, s, c, t) :
        m \in AdaptModelIds, ms \in AdaptMessageLists,
        s \in {None, Some(""), Some("Be brief")}, c \in AdaptConfigs,
        t \in {None, Some(Thinking(TRUE, 16000)), Some(Thinking(FALSE, 16000))} }

\* VendorAdapter.create(vendor).adapt_request(request)
AdaptRequest ==
    /\ Idle
    /\ \E vendor \in {ANTHROPIC, AWS}, request \in AdaptRequests :
          last' = [op |-> "adapt_request", vendor |-> vendor,
                   request |-> request,
                   result |-> adapt_request(vendor, request)]
    /\ UNCHANGED <<client, streams>>

-----------------------------------------------------------------------------
(* ai_dev_console_apps/gui/ai_dev_console/app.py : the chat loop *)

MaxHistory == 6

\* The fields the ConverseRequest dataclass declares, which are the keyword
\* arguments its __init__ accepts.
ConverseRequestFields == {"model_id", "messages", "system", "inference_config"}

UnexpectedKeyword ==
    Exc("TypeError",
        "__init__() got an unexpected keyword argument 'thinking_enabled'")

\* ConverseRequest(**keywords): the generated __init__, then __post_init__,
\* which validates the configuration.
ConverseRequest_init(keywords, request) ==
    IF ~(keywords \subseteq ConverseRequestFields)
    THEN Raise(UnexpectedKeyword)
    ELSE LET cfg == IF IsNone(request.inference_config) THEN DefaultConfig
                    ELSE Get(request.inference_config)
             v == InferenceConfiguration_validate(cfg)
         IN  IF ~IsNone(v) THEN Raise(Get(v))
             ELSE Ok([request EXCEPT !.inference_config = Some(cfg)])

prepare_messages_for_request(messages) ==
    LET prepared_messages ==
            SelectSeq(messages, LAMBDA msg : msg.role \in {"user", "assistant"})
    IN  IF Len(prepared_messages) > 0
           /\ prepared_messages[Len(prepared_messages)].role = "assistant"
        THEN SubSeq(prepared_messages, 1, Len(prepared_messages) - 1)
        ELSE prepared_messages

\* process_chat_stream: `stream` is what consuming converse_stream brings,
\* the accumulated text or the exception raised on the way; any exception
\* leaves as a ModelClientError.
process_chat_stream(request, stream) ==
    IF stream.ok THEN Ok(stream.val)
    ELSE Raise(Exc("ModelClientError",
                   "Error processing chat stream: " \o stream.err.msg))

\* The session after one run of main() in which st.chat_input returned
\* `prompt`: the history, the messages prepared for the request, and the
\* exception that left main(), if any. The request is built outside the
\* try-block, with the keywords main() passes.
chat(messages, prompt, stream) ==
    LET appended == Append(messages, Msg("user", << Text(prompt) >>))
        prepared_messages == prepare_messages_for_request(appended)
        request ==
            ConverseRequest_init(
                {"model_id", "messages", "system", "inference_config",
                 "thinking_enabled", "thinking_budget"},
                Request("claude-3-haiku-20240307", prepared_messages, None,
                        Some(Config(Some(0), None, Some(4096))),
                        Some(Thinking(FALSE, 16000))))
        response_text == process_chat_stream(request.val, stream)
        session(history, failed, uncaught) ==
            [op |-> "chat", before |-> messages, messages |-> history,
             prepared |-> prepared_messages, stream |-> stream,
             failed |-> failed, uncaught |-> uncaught]
    IN  IF ~request.ok THEN session(appended, TRUE, Some(request.err))
        ELSE IF ~response_text.ok
        THEN session(SubSeq(appended, 1, Len(appended) - 1), TRUE, None)
        ELSE IF response_text.val # ""
        THEN session(Append(appended,
                            Msg("assistant", << Text(response_text.val) >>)),
                     FALSE, None)
        ELSE session(appended, FALSE, None)

Prompts == {"hi", "more"}

\* A stream that brings text, one that brings none, and one that fails.
ChatStreams ==
    { Ok("Hello!"), Ok(""),
      Raise(Exc("ModelClientError", "Streaming failed: overloaded")) }

\* init_session_state: an empty history.
InitChat ==
    /\ client \in Clients
    /\ last = [op |-> "session", messages |-> <<>>]
    /\ streams = [s \in StreamIds |-> NoStream]

\* The user submits a prompt.
ChatSubmit ==
    /\ Len(last.messages) < MaxHistory
    /\ \E prompt \in Prompts, stream \in ChatStreams :
          last' = chat(last.messages, prompt, stream)
    /\ UNCHANGED <<client, streams>>

\* The buttons New Chat and Clear Chat.
ClearChat ==
    /\ last.messages # <<>>
    /\ last' = [op |-> "clear", messages |-> <<>>]
    /\ UNCHANGED <<client, streams>>

NextChat == ChatSubmit \/ ClearChat

SpecChat == InitChat /\ [][NextChat]_vars

\* Costs per million tokens, in hundredths of a dollar, and token counts.
CostsPerMillion == { Decimal(u, -2) : u \in {-1, 0, 25, 125, 300} }

Tokens == {-1, 0, 1, 20, 60, 1000, 1999, 1000000}

\* ModelCosts(input_cost, output_cost)
NewModelCosts ==
    /\ Idle
    /\ \E input_cost \in CostsPerMillion, output_cost \in CostsPerMillion :
          last' = [op |-> "ModelCosts", input_cost |-> input_cost,
                   output_cost |-> output_cost,
                   result |-> ModelCosts(input_cost, output_cost)]
    /\ UNCHANGED <<client, streams>>

\* costs.calculate_cost(input_tokens, output_tokens) on the costs just built
CalculateCost ==
    /\ last.op = "ModelCosts"
    /\ last.result.ok
    /\ \E input_tokens \in Tokens, output_tokens \in Tokens :
          last' = [op |-> "calculate_cost", costs |-> last.result.val,
                   input_tokens |-> input_tokens,
                   output_tokens |-> output_tokens,
                   result |-> calculate_cost(last.result.val, input_tokens,
                                             output_tokens)]
    /\ UNCHANGED <<client, streams>>

\* Content entries of a gateway answer: text, reasoning, reasoning without
\* its text, and an entry of another kind.
WireEntries ==
    { [text |-> "hello"], [text |-> ""], Reasoning("why"),
      [reasoningContent |-> [redactedContent |-> "xx"]],
      [toolUse |-> [name |-> "search"]] }

WireContents ==
    { <<>> } \cup { << a >> : a \in WireEntries }
    \cup { << a, b >> : a \in WireEntries, b \in WireEntries }

\* AWSAdapter().adapt_response(response)
AdaptResponse ==
    /\ Idle
    /\ \E role \in {"assistant", "user"}, content \in WireContents :
          LET response == [output |-> [message |-> [role |-> role,
                                                   content |-> content]],
                           stopReason |-> "end_turn"]
          IN  last' = [op |-> "adapt_response", vendor |-> AWS,
                       response |-> response,
                       result |-> AWSAdapter_adapt_response(response)]
    /\ UNCHANGED <<client, streams>>

-----------------------------------------------------------------------------
(* ai_dev_console_apps/cli/prompt/main.py *)

\* str.strip(), for the white space the inputs hold.
RECURSIVE LStrip(_)
LStrip(s) ==
    IF Len(s) > 0 /\ SubSeq(s, 1, 1) \in {" ", "\n"}
    THEN LStrip(SubSeq(s, 2, Len(s))) ELSE s

RECURSIVE RStrip(_)
RStrip(s) ==
    IF Len(s) > 0 /\ SubSeq(s, Len(s), Len(s)) \in {" ", "\n"}
    THEN RStrip(SubSeq(s, 1, Len(s) - 1)) ELSE s

Strip(s) == RStrip(LStrip(s))

\* The command line: `valid` is whether argparse accepts it.
Argv(valid, vendor, model, temperature, max_tokens) ==
    [valid |-> valid, vendor |-> vendor, model |-> model,
     temperature |-> temperature, max_tokens |-> max_tokens]

\* What a run leaves: the lines printed to each stream and the exit code.
CliOutput(stdout, stderr, code) ==
    [stdout |-> stdout, stderr |-> stderr, code |-> code]

\* print(f"Error: {e}", file=sys.stderr); return 1
CliFailed(e) == CliOutput(<<>>, << "Error: " \o e.msg >>, 1)

\* main(argv), with the environment variable DEBUG_INPUT, the standard
\* input, and what the environment and the transport answer. argparse leaves
\* through SystemExit(2), which `except Exception` does not catch.
main(argv, debug_input, stdin, ambient, sts, reply) ==
    IF ~argv.valid
    THEN CliOutput(<<>>, << "usage: ai-prompt", "ai-prompt: error" >>, 2)
    ELSE
    LET prompt == IF Truthy(debug_input) THEN Get(debug_input) ELSE Strip(stdin)
        inference_config ==
            IF ~IsNone(argv.temperature) \/ ~IsNone(argv.max_tokens)
            THEN Config(argv.temperature, None, argv.max_tokens)
            ELSE DefaultConfig
        created == ModelClientFactory_create_client(argv.vendor, None, ambient, sts)
        post_init == InferenceConfiguration_validate(inference_config)
        request == Request(argv.model,
                           << Msg("user", << Text(prompt) >>) >>,
                           None, Some(inference_config), None)
        response == (IF argv.vendor = ANTHROPIC
                     THEN AnthropicClient_converse(request, reply)
                     ELSE AWSClient_converse(request, reply)).result
    IN  IF prompt = ""
        THEN CliOutput(<<>>, << "Error: No input provided" >>, 1)
        ELSE IF ~created.ok THEN CliFailed(created.err)
        ELSE IF ~IsNone(post_init) THEN CliFailed(Get(post_init))
        ELSE IF ~response.ok THEN CliFailed(response.err)
        ELSE IF Len(response.val.messages) = 0
        THEN CliFailed(Exc("IndexError", "list index out of range"))
        ELSE LET message == response.val.messages[Len(response.val.messages)]
                 text == message.content[1].text
             IN  CliOutput(<< IF IsNone(text) THEN "None" ELSE Get(text) >>,
                           <<>>, 0)

CliArgvs ==
    { Argv(TRUE, v, m, t, mt) :
        v \in Vendor,
        m \in {"claude-3-haiku-20240307", "anthropic.claude-3-haiku-20240307"},
        t \in {None, Some(1), Some(2)}, mt \in {None, Some(1000)} }
    \cup { Argv(FALSE, "", "", None, None) }

CliStdins == {"", " \n", "What is Python?\n"}

CliDebugInputs == {None, Some("Explain ML")}

\* One run of the command-line tool.
CliMain ==
    /\ Idle
    /\ \E argv \in CliArgvs, debug_input \in CliDebugInputs,
          stdin \in CliStdins, ambient \in AmbientHandles,
          sts \in IdentityAnswers, reply \in AWSReplies \cup AnthropicReplies :
          last' = [op |-> "main", argv |-> argv, debug_input |-> debug_input,
                   stdin |-> stdin, ambient |-> ambient, sts |-> sts,
                   reply |-> reply,
                   out |-> main(argv, debug_input, stdin, ambient, sts, reply)]
    /\ UNCHANGED <<client, streams>>

\* The data model, the registry, the adapters and the command-line tool, each
\* called on its own.
NextLibrary ==
    \/ Validate
    \/ ConfigValidate
    \/ RoundTrip
    \/ ResolveModelId
    \/ ResolveAgain
    \/ GetModel
    \/ GetVendorModelId
    \/ GetInferenceProfileArn
    \/ AdaptRequest
    \/ CliMain
    \/ NewModelCosts
    \/ CalculateCost
    \/ AdaptResponse

SpecLibrary == InitBuild /\ [][NextLibrary]_vars

-----------------------------------------------------------------------------
(* Properties *)

IsErrorEvent(e) == \E i \in 1..Len(ErrorTypes) : Has(e, ErrorTypes[i])

IsTextDelta(e) ==
    /\ Has(e, "contentBlockDelta")
    /\ Has(e.contentBlockDelta.delta, "text")
    /\ e.contentBlockDelta.delta.text # ""

DeltaText(e) == e.contentBlockDelta.delta.text

\* The role set by the most recent messageStart before position i of h.
RoleBefore(h, i) ==
    LET starts == {j \in 1..(i - 1) : Has(h[j], "messageStart")}
    IN  IF starts = {} THEN None
        ELSE Some(h[CHOOSE j \in starts : \A k \in starts : k <= j].messageStart.role)

\* The non-empty text deltas of h that arrive while the role is assistant,
\* from position i on, in wire order.
RECURSIVE AssistantDeltas(_, _)
AssistantDeltas(h, i) ==
    IF i > Len(h) THEN <<>>
    ELSE (IF IsTextDelta(h[i]) /\ RoleBefore(h, i) = Some("assistant")
          THEN << DeltaText(h[i]) >> ELSE <<>>)
         \o AssistantDeltas(h, i + 1)

\* The validated operations: converse and converse_stream on both clients,
\* converse_async on the direct-API client.
Validated ==
    \/ last.op \in {"converse", "converse_stream"}
    \/ last.op = "converse_async" /\ client.vendor = ANTHROPIC

\* C1: when request.validate() fails in converse, converse_stream (both
\* clients) or converse_async (direct-API client), the transport is not
\* invoked for that call, no stream is acquired, and the caller receives a
\* ModelClientError whose message carries the validation message.
C1_ValidationFailsFast ==
    (Validated /\ ~IsNone(ConverseRequest_validate(last.request)))
    => /\ ~last.invoked
       /\ IsNone(last.wire)
       /\ ~last.result.ok
       /\ last.result.err.type = "ModelClientError"
       /\ Contains(last.result.err.msg,
                   Get(ConverseRequest_validate(last.request)).msg)
       /\ (last.op = "converse_stream" => NoStreamYet)

C1_Witness ==
    /\ last.op = "converse_stream"
    /\ last.request.model_id = ""
    /\ ~IsNone(last.request.thinking)
    /\ ~last.result.ok
    /\ last.result.err.msg = "Streaming failed: Model ID is required"

\* C2: every failure of validation, adaptation or the transport in converse,
\* converse_async and converse_stream reaches the caller as a
\* ModelClientError whose cause is the original failure.
C2_FailureWrappedWithCause ==
    /\ (Validated /\ ~last.result.ok)
       => /\ last.result.err.type = "ModelClientError"
          /\ last.result.err.cause # NoCause
    /\ \A s \in StreamIds :
          ~IsNone(streams[s].scope_error)
          => /\ Get(streams[s].scope_error).type = "ModelClientError"
             /\ Get(streams[s].scope_error).cause = Get(streams[s].gen_error)

\* C3: the wire request the gateway client hands to the transport in
\* converse and converse_stream carries as modelId the cross-region profile
\* identifier, computed from the client's region and account id, when the
\* registry reports that the requested model requires a profile, and the
\* requested model id otherwise.
C3_ProfileIdOnWire ==
    (client.vendor = AWS /\ last.op \in {"converse", "converse_stream"}
       /\ last.invoked)
    => Get(last.wire).modelId =
          (IF requires_inference_profile(last.request.model_id)
           THEN get_inference_profile_arn(last.request.model_id,
                                          client.region, client.account_id).val
           ELSE last.request.model_id)

\* C4: on both clients the network stream acquired by converse_stream is
\* closed once the streaming scope is left, however it is left.
C4_StreamReleasedOnExit ==
    \A s \in StreamIds : streams[s].scope = "out" => streams[s].net = "closed"

\* The first k events of h are messageStart{assistant}, then k - 2 text
\* deltas with non-empty text, then a named error event.
DeltasThenError(h, k) ==
    /\ h[1] = [messageStart |-> [role |-> "assistant"]]
    /\ \A i \in 2..(k - 1) : IsTextDelta(h[i])
    /\ IsErrorEvent(h[k])

\* C5: a gateway stream of messageStart{assistant}, n non-empty text deltas
\* and a named error event yields exactly the n deltas in wire order, then
\* raises a client error, and delivers nothing after it.
C5_DeltasBeforeError ==
    \A s \in StreamIds :
       \A k \in 2..Len(streams[s].events) :
          DeltasThenError(streams[s].events, k)
          => /\ Len(streams[s].events) = k
             /\ streams[s].gen = "raised"
             /\ streams[s].yielded =
                   [i \in 1..(k - 2) |-> DeltaText(streams[s].events[i + 1])]
             /\ Get(streams[s].gen_error).type = "ModelClientError"
             /\ Get(streams[s].scope_error).type = "ModelClientError"

C5_Witness ==
    /\ Len(streams[1].events) = 4
    /\ DeltasThenError(streams[1].events, 4)
    /\ streams[1].yielded = << "a", "b" >>
    /\ streams[1].gen = "raised"

\* C6: every named error event of a gateway stream, at any position and
\* under any current role, ends the iteration by raising a client error that
\* carries the provider's message; none is skipped.
C6_ErrorEventAlwaysRaises ==
    client.vendor = AWS
    => \A s \in StreamIds :
          \A i \in 1..Len(streams[s].events) :
             IsErrorEvent(streams[s].events[i])
             => /\ i = Len(streams[s].events)
                /\ streams[s].gen = "raised"
                /\ Contains(Get(streams[s].gen_error).msg, "provider says no")

\* C7: the chunks a gateway stream yields are exactly, in wire order, the
\* non-empty text deltas that arrived while the role set by the most recent
\* messageStart was assistant.
C7_OnlyAssistantDeltas ==
    client.vendor = AWS
    => \A s \in StreamIds :
          streams[s].yielded = AssistantDeltas(streams[s].events, 1)

C7_Witness ==
    /\ client.vendor = AWS
    /\ Len(streams[1].events) = 3
    /\ IsTextDelta(streams[1].events[1])
    /\ streams[1].events[2] = [messageStart |-> [role |-> "assistant"]]
    /\ IsTextDelta(streams[1].events[3])
    /\ streams[1].yielded = << DeltaText(streams[1].events[3]) >>

\* The aggregate of a stream that ran to its end.
Aggregate(s) ==
    IF client.vendor = ANTHROPIC
    THEN AnthropicFinalResponse(s, streams[s])
    ELSE AWSFinalResponse(s, streams[s])

\* C8: with two streams open on one client, the accumulated state of each
\* depends on its own events only, and the aggregate of a stream that ran to
\* its end is not replaced by the other stream.
C8_StreamsIsolated ==
    \A s \in StreamIds :
       /\ (client.vendor = AWS
           => streams[s].yielded = AssistantDeltas(streams[s].events, 1))
       /\ (streams[s].gen = "exhausted" => client.response = Aggregate(s))

\* C9: client.response is assigned by a stream only when its chunk sequence
\* has been consumed to the end: not while chunks remain, not after the
\* consumer stopped early, not after an error raised mid-stream.
C9_AggregateOnlyAfterExhaustion ==
    /\ \A s \in StreamIds :
          client.response.owner = s => streams[s].gen = "exhausted"
    /\ \A s \in StreamIds :
          streams[s].gen \in {"none", "created", "running", "raised"}
          => client.response.owner # s

C9_Witness ==
    /\ streams[1].gen = "exhausted"
    /\ Len(streams[1].yielded) >= 2
    /\ client.response.owner = 1

\* C10: the chunks a direct-API stream yields are exactly the non-empty text
\* deltas of the wire stream, in wire order.
C10_NonEmptyChunksInOrder ==
    client.vendor = ANTHROPIC
    => \A s \in StreamIds :
          LET kept == SelectSeq(streams[s].events, LAMBDA e : e.chunk # "")
          IN  streams[s].yielded = [i \in 1..Len(kept) |-> kept[i].chunk]

C10_Witness ==
    /\ client.vendor = ANTHROPIC
    /\ streams[1].gen = "exhausted"
    /\ streams[1].events =
          << [chunk |-> "a"], [chunk |-> ""], [chunk |-> "b"],
             [chunk |-> ""], [chunk |-> "a"] >>
    /\ streams[1].yielded = << "a", "b", "a" >>

\* The operations a client does not support: converse_async on the gateway
\* client, converse_stream on a client that inherits the base operation.
Unsupported ==
    \/ last.op = "converse_async" /\ client.cls = "AWSClient"
    \/ last.op = "converse_stream" /\ client.cls = "ModelClient"

\* C11: an operation a client does not support raises NotImplementedError
\* itself, not wrapped into another error kind, without invoking the
\* transport and without producing a result or a stream.
C11_UnsupportedRaisesNotImplemented ==
    Unsupported
    => /\ ~last.invoked
       /\ IsNone(last.wire)
       /\ ~last.result.ok
       /\ last.result.err.type = "NotImplementedError"
       /\ last.result.err.cause = NoCause
       /\ NoStreamYet

C11_Witness ==
    /\ last.op = "converse_async"
    /\ client.cls = "AWSClient"
    /\ IsNone(ConverseRequest_validate(last.request))
    /\ ~IsNone(last.request.thinking)
    /\ last.result.err.type = "NotImplementedError"

\* The transport handle a create_client call binds the client to.
HandleUsed ==
    IF ~IsNone(last.handle) THEN Ok(Get(last.handle)) ELSE last.ambient

\* C12: both factories return the implementation bound to the requested
\* vendor for the two implemented vendors, and fail with one and the same
\* error kind for a vendor without an implementation.
C12_FactoriesAgree ==
    /\ (last.op = "VendorAdapter.create" /\ last.vendor \in {ANTHROPIC, AWS})
       => last.result = VendorAdapter_create(last.vendor) /\ last.result.ok
    /\ (last.op = "create_client" /\ last.vendor \in {ANTHROPIC, AWS}
          /\ last.result.ok)
       => /\ last.result.val.vendor = last.vendor
          /\ client = last.result.val
    /\ (last.op \in {"VendorAdapter.create", "create_client"}
          /\ last.vendor = OPENAI)
       => /\ ~last.result.ok
          /\ last.result.err.type = VendorAdapter_create(OPENAI).err.type

\* C13: the gateway client is constructed even when neither the handle's
\* session nor the identity service yields an account id; only a later
\* converse on a client without an account id fails.
C13_ConstructionSurvivesNoIdentity ==
    /\ (last.op = "create_client" /\ last.vendor = AWS /\ HandleUsed.ok
          /\ IsNone(HandleUsed.val.account) /\ ~last.sts.ok)
       => /\ last.result.ok
          /\ client.cls = "AWSClient"
    /\ (last.op = "converse" /\ client.cls = "AWSClient"
          /\ client.account_id = "")
       => ~last.result.ok

\* C14: ConverseRequest.validate() raises exactly when model_id is empty, or
\* messages is empty, or some message has empty content, or the inference
\* configuration fails its own validation; otherwise it returns and the
\* request is as it was.
C14_RequestValidationIff ==
    last.op = "ConverseRequest.validate"
    => LET r == last.request
           invalid ==
               \/ r.model_id = ""
               \/ r.messages = <<>>
               \/ \E i \in 1..Len(r.messages) : r.messages[i].content = <<>>
               \/ /\ ~IsNone(r.inference_config)
                  /\ ~IsNone(InferenceConfiguration_validate(Get(r.inference_config)))
       IN  /\ invalid <=> ~IsNone(last.result)
           /\ ~IsNone(last.result) => Get(last.result).type = "ValueError"
           /\ IsNone(last.result) => last.after = r

C14_Witness ==
    /\ last.op = "ConverseRequest.validate"
    /\ last.request.model_id # ""
    /\ Len(last.request.messages) = 1
    /\ last.request.messages[1].content = <<>>
    /\ ~IsNone(last.result)
    /\ Get(last.result).msg = "Each message must have content"

\* The set numeric fields of a configuration are within their bounds.
InBounds(c) ==
    /\ ~IsNone(c.temperature)
       => 0 <= Get(c.temperature) /\ Get(c.temperature) <= 1
    /\ ~IsNone(c.top_p) => 0 <= Get(c.top_p) /\ Get(c.top_p) <= 1
    /\ ~IsNone(c.max_tokens)
       => 0 < Get(c.max_tokens) /\ Get(c.max_tokens) <= 8192

\* stop_sequences is unset or a list of strings.
StopSequencesWellFormed(c) ==
    IsNone(c.stop_sequences)
    \/ /\ Get(c.stop_sequences).type = "list"
       /\ \A i \in 1..Len(Get(c.stop_sequences).items) :
             Get(c.stop_sequences).items[i].type = "str"

\* C15 as stated: InferenceConfiguration.validate() returns for every
\* configuration whose set fields satisfy temperature in [0,1], top_p in
\* [0,1] and 0 < max_tokens <= 8192, and raises whenever one of them is set
\* outside its bounds.
C15_AsStated ==
    last.op = "InferenceConfiguration.validate"
    => (InBounds(last.config) <=> IsNone(last.result))

\* C15: InferenceConfiguration.validate() returns exactly for the
\* configurations whose set numeric fields are within their bounds and whose
\* stop_sequences, when set, is a list of strings; otherwise it raises a
\* ValueError; an unset field is never a reason to fail.
C15_ConfigValidationBounds ==
    last.op = "InferenceConfiguration.validate"
    => /\ (InBounds(last.config) /\ StopSequencesWellFormed(last.config))
          <=> IsNone(last.result)
       /\ ~IsNone(last.result) => Get(last.result).type = "ValueError"
       /\ (last.config = Config(None, None, None)) => IsNone(last.result)

C15_Witness ==
    /\ last.op = "InferenceConfiguration.validate"
    /\ last.config.max_tokens = Some(8193)
    /\ last.config.temperature = Some(1)
    /\ IsNone(last.config.stop_sequences)
    /\ ~IsNone(last.result)
    /\ Get(last.result).msg = "Max tokens cannot exceed 8192"

\* The text content of a message, block by block.
Texts(msg) ==
    LET withText == SelectSeq(msg.content, LAMBDA b : ~IsNone(b.text))
    IN  [i \in 1..Len(withText) |-> Get(withText[i].text)]

\* C16: adapting the messages of a request to a vendor's wire format and
\* back through the same vendor's response adapter gives messages with the
\* same roles and the same text content, message by message and block by
\* block.
C16_RoundTripPreservesRoleAndText ==
    last.op = "round_trip"
    => /\ last.result.ok
       /\ Len(last.result.val) = Len(last.request.messages)
       /\ \A i \in 1..Len(last.request.messages) :
             /\ Len(last.result.val[i]) = 1
             /\ last.result.val[i][1].role = last.request.messages[i].role
             /\ Texts(last.result.val[i][1]) = Texts(last.request.messages[i])

\* C17: for a canonical name n and a vendor v of its mapping,
\* resolve_model_id(n, v) is the registered id, and resolve_model_id of that
\* id for the same v is that id again.
C17_ResolveIdempotent ==
    /\ (last.op = "resolve_model_id" /\ ~last.again
          /\ HasMapping(last.model_id)
          /\ last.vendor \in DOMAIN VendorIds(last.model_id))
       => last.result = Ok(VendorIds(last.model_id)[last.vendor])
    /\ (last.op = "resolve_model_id" /\ last.again
          /\ IsVendorId(last.model_id, last.vendor))
       => last.result = Ok(last.model_id)

C17_Witness ==
    /\ last.op = "resolve_model_id"
    /\ last.again
    /\ last.vendor = AWS
    /\ last.model_id = "anthropic.claude-3-5-sonnet-20240620-v1:0"
    /\ last.result = Ok("anthropic.claude-3-5-sonnet-20240620-v1:0")

\* C18: resolve_model_id of an id that is neither a canonical name nor a
\* registered vendor-specific id returns the id unchanged.
C18_UnknownIdUnchanged ==
    (last.op = "resolve_model_id"
       /\ ~HasMapping(last.model_id)
       /\ \A v \in Vendor : ~IsVendorId(last.model_id, v))
    => last.result = Ok(last.model_id)

\* C19: get_model fails with a ValueError naming the name when the name is
\* not in the catalog; without a vendor it returns the entry of the
\* catalog's preferred vendor for the name; with a vendor it returns that
\* vendor's entry, or fails when the name has none for it.
C19_GetModel ==
    last.op = "get_model"
    => IF ~InCatalog(last.model_name)
       THEN /\ ~last.result.ok
            /\ last.result.err.type = "ValueError"
            /\ Contains(last.result.err.msg, "'" \o last.model_name \o "' not found")
       ELSE IF IsNone(last.vendor)
       THEN last.result =
               Ok(AIModel(last.model_name, Get(AvailableModelVendor(last.model_name))))
       ELSE IF HasVariant(last.model_name, Get(last.vendor))
       THEN last.result = Ok(AIModel(last.model_name, Get(last.vendor)))
       ELSE /\ ~last.result.ok
            /\ last.result.err.type = "ValueError"

C19_Witness ==
    /\ last.op = "get_model"
    /\ last.model_name = "claude-3-7-sonnet-20250219"
    /\ IsNone(last.vendor)
    /\ last.result = Ok(AIModel("claude-3-7-sonnet-20250219", ANTHROPIC))

\* C20: get_vendor_model_id returns the mapping's id for the vendor when the
\* name has a mapping, failing ("not supported") when the mapping has no
\* entry for the vendor; without a mapping it returns the name only when the
\* name is a catalog entry whose default vendor is the vendor, and fails
\* ("no mapping found") otherwise.
C20_GetVendorModelId ==
    last.op = "get_vendor_model_id"
    => IF HasMapping(last.model_name)
       THEN IF last.vendor \in DOMAIN VendorIds(last.model_name)
            THEN last.result = Ok(VendorIds(last.model_name)[last.vendor])
            ELSE /\ ~last.result.ok
                 /\ last.result.err.type = "ValueError"
                 /\ Contains(last.result.err.msg, "not supported for vendor")
       ELSE IF InCatalog(last.model_name)
               /\ DefaultVariant(last.model_name).vendor = last.vendor
       THEN last.result = Ok(last.model_name)
       ELSE /\ ~last.result.ok
            /\ last.result.err.type = "ValueError"
            /\ Contains(last.result.err.msg, "No mapping found")

C20_Witness ==
    /\ last.op = "get_vendor_model_id"
    /\ last.model_name = "claude-3-haiku-20240307"
    /\ last.vendor = OPENAI
    /\ ~last.result.ok
    /\ last.result.err.msg =
          "Model 'claude-3-haiku-20240307' not supported for vendor openai"

\* C21: get_inference_profile_arn fails (ValueError, "does not require an
\* inference profile") exactly when requires_inference_profile(name) is
\* false; otherwise it returns
\* arn:aws:bedrock:{region}:{account_id}:inference-profile/{first two
\* characters of region}.{gateway vendor id of name}.
C21_InferenceProfileArn ==
    last.op = "get_inference_profile_arn"
    => IF requires_inference_profile(last.model_name)
       THEN /\ last.result.ok
            /\ \E p \in {"eu", "us", "ap", "e"} :
                  /\ Len(p) <= Len(last.region)
                  /\ p = SubSeq(last.region, 1, Len(p))
                  /\ Len(p) = 2 \/ Len(last.region) < 2
                  /\ last.result.val =
                        "arn:aws:bedrock:" \o last.region \o ":"
                          \o last.account_id \o ":inference-profile/" \o p
                          \o "." \o VendorIds(last.model_name)[AWS]
       ELSE /\ ~last.result.ok
            /\ last.result.err.type = "ValueError"
            /\ Contains(last.result.err.msg,
                        "does not require an inference profile")

C21_Witness ==
    /\ last.op = "get_inference_profile_arn"
    /\ last.model_name = "claude-3-7-sonnet-20250219"
    /\ last.region = "eu-central-1"
    /\ last.account_id = "123456789"
    /\ last.result =
          Ok("arn:aws:bedrock:eu-central-1:123456789:inference-profile/eu.anthropic.claude-3-7-sonnet-20250219-v1:0")

\* A block that is pure text: it has a text and no image.
PureText(block) == ~IsNone(block.text) /\ IsNone(block.image)

\* In block order, a text entry for each block's text and an image entry
\* (base64 source) for each block's image.
RECURSIVE TypedEntries(_)
TypedEntries(content) ==
    IF Len(content) = 0 THEN <<>>
    ELSE LET b == Head(content)
         IN  (IF IsNone(b.text) THEN <<>>
              ELSE << [type |-> "text", text |-> Get(b.text)] >>)
             \o (IF IsNone(b.image) THEN <<>>
                 ELSE << [type |-> "image",
                          source |-> [type |-> "base64",
                                      media_type |-> Get(b.image).media_type,
                                      data |-> Get(b.image).data]] >>)
             \o TypedEntries(Tail(content))

\* C22: direct-API request adaptation gives a message a bare string content
\* exactly when the message has exactly one content block and that block is
\* pure text; every other message gets the list of typed entries of its
\* blocks, a text entry per text and an image entry per image, in block
\* order.
C22_BareStringIffSinglePureText ==
    (last.op = "adapt_request" /\ last.vendor = ANTHROPIC /\ last.result.ok)
    => /\ Len(last.result.val.messages) = Len(last.request.messages)
       /\ \A i \in 1..Len(last.request.messages) :
             LET msg == last.request.messages[i]
                 wire == last.result.val.messages[i]
             IN  /\ wire.role = msg.role
                 /\ IF Len(msg.content) = 1 /\ PureText(msg.content[1])
                    THEN wire.content = [str |-> Get(msg.content[1].text)]
                    ELSE wire.content = [blocks |-> TypedEntries(msg.content)]

\* The inferenceConfig keys the fields of a configuration call for.
SetKeys(cfg) ==
    {k \in {"temperature", "maxTokens", "topP", "stopSequences"} :
        \/ k = "temperature" /\ ~IsNone(cfg.temperature)
        \/ k = "maxTokens" /\ ~IsNone(cfg.max_tokens)
        \/ k = "topP" /\ ~IsNone(cfg.top_p)
        \/ k = "stopSequences" /\ ~IsNone(cfg.stop_sequences)}

RECURSIVE FirstText(_)
FirstText(content) ==
    IF Len(content) = 0 THEN None
    ELSE IF Has(Head(content), "text") THEN Some(Head(content).text)
    ELSE FirstText(Tail(content))

\* A run of the command-line tool whose call is successful: the command line
\* and the input are accepted, the environment yields a client, and the
\* gateway answers the call with a message holding text.
CliCallSucceeds(run) ==
    /\ run.argv.valid
    /\ run.argv.vendor = AWS
    /\ IF Truthy(run.debug_input) THEN TRUE ELSE Strip(run.stdin) # ""
    /\ InBounds(Config(run.argv.temperature, None, run.argv.max_tokens))
    /\ run.ambient.ok
    /\ run.sts.ok
    /\ run.reply.ok
    /\ Has(run.reply.val, "output")
    /\ ~IsNone(FirstText(run.reply.val.output.message.content))

\* C25: on a successful call the command-line tool writes the text of the
\* first message of the response to standard output and exits with 0; on
\* every failure, empty input included, it exits with a non-zero code and
\* the failure's message on standard error.
C25_CliOutput ==
    last.op = "main"
    => /\ CliCallSucceeds(last)
            => /\ last.out.code = 0
               /\ last.out.stdout =
                     << Get(FirstText(last.reply.val.output.message.content)) >>
       /\ last.out.code # 0 => Len(last.out.stderr) > 0
       /\ (~last.argv.valid
             \/ (~Truthy(last.debug_input) /\ Strip(last.stdin) = "")
             \/ ~last.reply.ok)
            => last.out.code # 0

\* The cost of a call in units of 10^-8 dollars:
\* (i * input_cost_per_million + o * output_cost_per_million) / 1,000,000.
ExactCost(costs, i, o) ==
    i * costs.input_cost_per_million_tokens.units
    + o * costs.output_cost_per_million_tokens.units

\* C26: for non-negative token counts calculate_cost returns
\* (i * input_cost_per_million + o * output_cost_per_million) / 1,000,000
\* as a decimal of exactly five places, the nearest one (0.00150 for
\* 1000/1000 and 1.50000 for 1,000,000/1,000,000 at costs 0.25/1.25); a
\* negative token count raises ValueError, and so does a negative cost at
\* construction.
C26_CalculateCost ==
    /\ last.op = "calculate_cost"
         => IF last.input_tokens >= 0 /\ last.output_tokens >= 0
            THEN LET exact == ExactCost(last.costs, last.input_tokens,
                                        last.output_tokens)
                     cost == last.result.val
                 IN  /\ last.result.ok
                     /\ cost.exponent = -5
                     /\ 1000 * cost.units - exact <= 500
                     /\ exact - 1000 * cost.units <= 500
                     /\ exact % 1000 = 0 => 1000 * cost.units = exact
            ELSE /\ ~last.result.ok
                 /\ last.result.err.type = "ValueError"
    /\ last.op = "ModelCosts"
         => IF last.input_cost.units >= 0 /\ last.output_cost.units >= 0
            THEN last.result.ok
            ELSE ~last.result.ok /\ last.result.err.type = "ValueError"
    /\ calculate_cost(ModelCosts(Decimal(25, -2), Decimal(125, -2)).val,
                      1000, 1000) = Ok(Decimal(150, -5))
    /\ calculate_cost(ModelCosts(Decimal(25, -2), Decimal(125, -2)).val,
                      1000000, 1000000) = Ok(Decimal(150000, -5))

\* The large-project estimate: 1.50000.
C26_Witness ==
    /\ last.op = "calculate_cost"
    /\ last.costs.input_cost_per_million_tokens = Decimal(25, -2)
    /\ last.costs.output_cost_per_million_tokens = Decimal(125, -2)
    /\ last.input_tokens = 1000000
    /\ last.output_tokens = 1000000
    /\ last.result = Ok(Decimal(150000, -5))

\* The exception raised inside the scope of stream s, if any: by generate()
\* while the consumer pulls, or by the consumer's own code.
RaisedInScope(s) ==
    IF ~IsNone(streams[s].gen_error) THEN streams[s].gen_error
    ELSE IF last.op = "raise" /\ last.stream = s THEN Some(last.error)
    ELSE None

\* C27: on both clients an exception raised inside the with-block around
\* converse_stream, by the transport, by generate() or by the caller's own
\* code, leaves the scope as a ModelClientError whose message is "Streaming
\* failed: " followed by the message of the exception raised; a provider
\* error event, which generate() raises as a ModelClientError, is thereby
\* wrapped a second time.
C27_ScopeErrorsWrapped ==
    \A s \in StreamIds :
        /\ ~IsNone(RaisedInScope(s))
              => /\ streams[s].scope = "out"
                 /\ ~IsNone(streams[s].scope_error)
                 /\ Get(streams[s].scope_error).type = "ModelClientError"
                 /\ Get(streams[s].scope_error).msg
                      = "Streaming failed: " \o Get(RaisedInScope(s)).msg
        /\ (~IsNone(streams[s].gen_error)
             /\ Get(streams[s].gen_error).type = "ModelClientError")
              => /\ ~IsNone(FirstError(ErrorTypes,
                                       streams[s].events[Len(streams[s].events)]))
                 /\ Get(streams[s].scope_error).type = "ModelClientError"
                 /\ Get(streams[s].scope_error).msg
                      = "Streaming failed: AWS Bedrock error: provider says no"

\* The caller's own ModelClientError, raised after a chunk was consumed,
\* leaves the scope wrapped.
C27_Witness ==
    /\ last.op = "raise"
    /\ last.error = Exc("ModelClientError", "caller gave up")
    /\ Len(streams[1].yielded) > 0
    /\ streams[1].scope = "out"
    /\ Get(streams[1].scope_error).type = "ModelClientError"
    /\ Get(streams[1].scope_error).msg = "Streaming failed: caller gave up"

\* The in-order concatenation of a sequence of chunks.
RECURSIVE Concat(_)
Concat(chunks) ==
    IF Len(chunks) = 0 THEN "" ELSE Head(chunks) \o Concat(Tail(chunks))

\* The reasoning blocks of a content list, in order.
ReasoningBlocks(content) ==
    SelectSeq(content, LAMBDA b : Has(b, "reasoningContent")
                                   /\ Has(b.reasoningContent, "reasoningText"))

\* The reasoning text of the last reasoning block among the messageComplete
\* events that generate() has seen, those received while the role in force
\* is assistant; `acc` when there is none.
RECURSIVE SeenThinking(_, _, _)
SeenThinking(events, role, acc) ==
    IF Len(events) = 0 THEN acc
    ELSE LET e == Head(events)
         IN  IF Has(e, "messageStart")
             THEN SeenThinking(Tail(events), e.messageStart.role, acc)
             ELSE IF role # "assistant"
             THEN SeenThinking(Tail(events), role, acc)
             ELSE IF Has(e, "messageComplete")
                     /\ Len(ReasoningBlocks(e.messageComplete.message.content)) > 0
             THEN LET blocks == ReasoningBlocks(e.messageComplete.message.content)
                  IN  SeenThinking(Tail(events), role,
                          Some(blocks[Len(blocks)].reasoningContent.reasoningText.text))
             ELSE SeenThinking(Tail(events), role, acc)

\* C28: once a managed-gateway stream has been consumed to exhaustion
\* without an error, client.response["text"] is the in-order concatenation
\* of exactly the chunks yielded to the consumer, and
\* client.response["thinking"] is present exactly when generate() has seen a
\* reasoning block in a messageComplete event of the stream, and then holds
\* the reasoning text of the last such block.
C28_AggregateAfterExhaustion ==
    \A s \in StreamIds :
        (client.vendor = AWS /\ streams[s].gen = "exhausted")
        => LET seen == SeenThinking(streams[s].events, "", None)
           IN  /\ client.response.owner = s
               /\ client.response.value.text = Concat(streams[s].yielded)
               /\ Has(client.response.value, "thinking") <=> ~IsNone(seen)
               /\ Has(client.response.value, "thinking")
                     => client.response.value.thinking = [text |-> Get(seen)]

C28_Witness ==
    /\ client.vendor = AWS
    /\ streams[1].gen = "exhausted"
    /\ streams[1].yielded = << "a", "b" >>
    /\ Len(streams[1].events) = 4
    /\ Has(streams[1].events[4], "messageComplete")
    /\ client.response.value = [text |-> "ab", thinking |-> [text |-> "r2"]]

\* The content entries adapt_response is to retain: those having text, or
\* reasoningContent.reasoningText.
Retained(content) ==
    SelectSeq(content, LAMBDA c : Has(c, "text")
                                   \/ (Has(c, "reasoningContent")
                                       /\ Has(c.reasoningContent, "reasoningText")))

\* C29: AWSAdapter.adapt_response returns one Message per retained content
\* entry of output.message, in wire order, each with the wire message's role
\* and exactly one content block (the entry's text for a text entry);
\* entries that are neither text nor reasoning text are dropped, and a wire
\* message without a retained entry gives an empty message list.
C29_OneMessagePerRetainedEntry ==
    last.op = "adapt_response"
    => LET wire == last.response.output.message
           kept == Retained(wire.content)
       IN  /\ last.result.ok
           /\ Len(last.result.val.messages) = Len(kept)
           /\ \A i \in 1..Len(kept) :
                 LET message == last.result.val.messages[i]
                 IN  /\ message.role = wire.role
                     /\ Len(message.content) = 1
                     /\ Has(kept[i], "text")
                           => message.content[1].text = Some(kept[i].text)

\* A history that alternates user and assistant messages, starting with a
\* user message and ending with an assistant message.
Alternates(messages) ==
    /\ Len(messages) % 2 = 0
    /\ \A i \in 1..Len(messages) :
          messages[i].role = IF i % 2 = 1 THEN "user" ELSE "assistant"

\* C30: in the GUI chat loop the history between submissions, whatever they
\* end in (text, no text, a failure), alternates user and assistant messages
\* from a user message to an assistant message; a failed submission leaves
\* the history as it was before it; and the messages prepared for a request
\* end with a user message.
C30_HistoryAlternates ==
    /\ Alternates(last.messages)
    /\ last.op = "chat"
         => /\ last.failed => last.messages = last.before
            /\ Len(last.prepared) > 0
            /\ last.prepared[Len(last.prepared)].role = "user"

====
